---- MODULE Spec2Model ----
(***************************************************************************)
(* A model of the youtube-researcher request pipeline:                     *)
(*   - the streaming handler of pages/api/ask.ts (validation, the SSE      *)
(*     serializer with its dedup locals, the terminal done/error event),   *)
(*   - the tool-error middleware of src/lib/toolErrorHandler.ts,           *)
(*   - the text sanitizers of src/lib/sanitize.ts,                         *)
(*   - the fixed-window rate limiter of src/lib/rateLimit.ts, with its     *)
(*     client identification and its withRateLimit wrapper,                *)
(*   - the retry loop of the transcript fetch of src/yt/loader.ts.         *)
(* Text is modelled by TLA+ strings; an optional value (a field that may   *)
(* be undefined) by a sequence of length at most one.                      *)
(***************************************************************************)
EXTENDS Integers, Sequences, FiniteSets, TLC

(***************************************************************************)
(* Bounds of the model                                                     *)
(***************************************************************************)
\* snapshots one request consumes when it runs alone
MaxSnapshots == 3
\* snapshots two concurrent requests consume together
MaxConcSnapshots == 2
\* the clock runs over the first MaxWindows window lengths ...
MaxWindows == 2
\* ... and up to MaxJitter ms past each multiple of the window length
MaxJitter == 1
\* windows' worth of time in the runs of the withRateLimit wrapper
MaxAdmitWindows == 1
\* windows' worth of time in the runs that count admissions per instant
MaxSlideWindows == 1
\* indexing passes in the runs of the index
MaxPasses == 3
\* records a failing write of an indexing pass may leave behind
MaxPartial == 1
\* sentences per document asked of the heuristic compression
MaxSentences == 3
\* characters of the passages given to the Model-assisted compression
MaxPassageLength == 10
\* documents of a compressDocuments call, and its fan-out
MaxBatchDocs == 5
MaxFanOut == 3
\* the largest result count asked of a query, and its double
MaxK == 6
\* agents constructed in the runs of the agent manager
MaxAgents == 3
\* calls of the index_content tool in a run
MaxToolCalls == 3
\* milliseconds the clock advances between two statements of the wrapper
MaxLag == 1
\* chunks of one agent run delivered turn by turn: the user's turn, three tool
\* calls with their results, and the answer
MaxTurns == 8

VARIABLES
    reqs,           \* the requests that arrive in this run
    pc,             \* pc[r]: where request r's handler invocation stands
    statusCode,     \* statusCode[r]: res.statusCode (200 unless res.status() is called)
    events,         \* events[r]: the SSE records written with res.write, in order
    messageBuffer,  \* handler local (ask.ts:88), one per invocation frame
    lastToolName,   \* handler local (ask.ts:89)
    sentMessages,   \* handler local (ask.ts:90)
    toolCalls,      \* toolCalls[r]: tool calls of the latest Model output of r's agent run
    snapshots,      \* history: last message of every chunk r's loop has consumed
    thrown,         \* history: the value caught by r's catch block, if any
    toolRun,        \* history: the latest tool execution of r: call, outcome, result
    store,          \* RateLimiter.store: identifier -> optional {count, resetTime}
    now,            \* Date.now(), in ms
    lastDecision,   \* history: the latest isAllowed call: identifier and result
    claimed,        \* history: the window state and decision the specification describes
    unswept,        \* history: the store of a limiter that made the same calls, never swept
    body,           \* body[r]: req.method and the url and question of req.body
    trustProxy,     \* TRUSTED_PROXY_CONFIG.trustProxy, read from the environment at load
    admission,      \* history: the latest call of the withRateLimit wrapper
    twin,           \* the store of a second limiter, serving the same peers at the same times
    admittedAt,     \* history: admittedAt[t] counts the requests admitted at time t
    identified,     \* history: the latest getClientIdentifier call, request and result
    fetch,          \* fetch[run]: one retryWithBackoff call: position, counters, outcome
    namespaces,     \* the Pinecone index: namespace name -> the records stored in it
    ragCall,        \* history: the latest call on the index: arguments and outcome
    passes,         \* history: passes[v] lists the chunk counts of v's indexing passes
    applied,        \* one application of a function: its input and, once applied, output
    batch,          \* one compressDocuments call: loop position, calls in flight, results
    manager         \* AgentManager: the static instance and its fields, with history

streamVars == <<reqs, pc, statusCode, events, messageBuffer, lastToolName,
                sentMessages, toolCalls, snapshots, thrown, toolRun, body>>
rateVars == <<store, now, lastDecision, claimed, unswept>>
admitVars == <<trustProxy, admission, twin, admittedAt, identified>>
fetchVars == <<fetch>>
toolVars == <<namespaces, ragCall, passes, applied, batch, manager>>
vars == <<reqs, pc, statusCode, events, messageBuffer, lastToolName,
          sentMessages, toolCalls, snapshots, thrown, toolRun, body,
          store, now, lastDecision, claimed, unswept,
          trustProxy, admission, twin, admittedAt, identified, fetch,
          namespaces, ragCall, passes, applied, batch, manager>>

(***************************************************************************)
(* Optional values and text helpers                                        *)
(***************************************************************************)
None == <<>>
Some(x) == <<x>>

\* ${x} in a template literal: undefined prints as "undefined"
TemplateStr(opt) == IF opt = None THEN "undefined" ELSE opt[1]

\* String.prototype.includes
Includes(str, sub) ==
    \E i \in 1..(Len(str) - Len(sub) + 1) : SubSeq(str, i, i + Len(sub) - 1) = sub

IsSpace(c) == c \in {" ", "\t", "\n", "\r"}

\* String.prototype.trim
RECURSIVE Trim(_)
Trim(str) ==
    IF str = "" THEN ""
    ELSE IF IsSpace(SubSeq(str, 1, 1)) THEN Trim(SubSeq(str, 2, Len(str)))
    ELSE IF IsSpace(SubSeq(str, Len(str), Len(str))) THEN Trim(SubSeq(str, 1, Len(str) - 1))
    ELSE str

UpperChars == "ABCDEFGHIJKLMNOPQRSTUVWXYZ"
LowerChars == "abcdefghijklmnopqrstuvwxyz"

\* upper-case letter -> lower-case letter
LowerMap ==
    [c \in {SubSeq(UpperChars, i, i) : i \in 1..Len(UpperChars)} |->
        LET i == CHOOSE j \in 1..Len(UpperChars) : SubSeq(UpperChars, j, j) = c
        IN  SubSeq(LowerChars, i, i)]

LowerChar(c) == IF c \in DOMAIN LowerMap THEN LowerMap[c] ELSE c

\* case folding, for the /i flag of the regular expressions
RECURSIVE ToLower(_)
ToLower(str) ==
    IF str = "" THEN ""
    ELSE LowerChar(SubSeq(str, 1, 1)) \o ToLower(SubSeq(str, 2, Len(str)))

\* Math.min
Min(a, b) == IF a < b THEN a ELSE b

RECURSIVE Repeat(_, _)
Repeat(str, n) ==
    IF n = 0 THEN ""
    ELSE IF n % 2 = 0 THEN LET half == Repeat(str, n \div 2) IN half \o half
    ELSE str \o Repeat(str, n - 1)

(***************************************************************************)
(* src/lib/sanitize.ts                                                     *)
(***************************************************************************)
htmlEscapeMap(char) ==
    CASE char = "&"  -> "&amp;"
      [] char = "<"  -> "&lt;"
      [] char = ">"  -> "&gt;"
      [] char = "\"" -> "&quot;"
      [] char = "'"  -> "&#x27;"
      [] char = "/"  -> "&#x2F;"
      [] OTHER       -> char

RECURSIVE sanitizeHTML(_)
sanitizeHTML(str) ==
    IF str = "" THEN ""
    ELSE htmlEscapeMap(SubSeq(str, 1, 1)) \o sanitizeHTML(SubSeq(str, 2, Len(str)))

truncateMaxLength == 200

truncate(str, maxLength) ==
    IF Len(str) <= maxLength THEN str ELSE SubSeq(str, 1, maxLength) \o "..."

sensitiveFields ==
    {"password", "token", "secret", "key", "apiKey", "api_key", "credentials"}

\* Tool arguments are flat objects of strings here: a set of <<field, value>> pairs.
sanitizeObject(obj) == {<<sanitizeHTML(p[1]), sanitizeHTML(p[2])>> : p \in obj}

sanitizeToolArgs(args) ==
    {<<p[1], IF p[1] \in sensitiveFields THEN "[REDACTED]" ELSE p[2]>> :
        p \in sanitizeObject(args)}

\* the allowlist of sanitizeErrorMessage, each alternative of each pattern spelled out
safeErrorPatterns ==
    {"rate limit", "validation error", "invalid url", "invalid youtube",
     "invalid video", "not found", "timeout", "too long", "too large", "too many"}

GenericErrorMessage == "An unexpected error occurred. Please try again later."

\* A thrown value is [kind, message]: kind "Error" or a typed error class with its
\* message, kind "string" for a thrown string (message is its text), kind "null".
\* error?.message || error?.toString?.() || "An error occurred"
ErrorText(error) ==
    CASE error.kind = "null"   -> "An error occurred"
      [] error.message # ""    -> error.message
      [] error.kind = "string" -> "An error occurred"
      [] OTHER                 -> error.kind

sanitizeErrorMessage(error) ==
    LET errorMessage == ErrorText(error)
        folded == ToLower(errorMessage)
    IN  IF \E pattern \in safeErrorPatterns : Includes(folded, pattern)
        THEN sanitizeHTML(errorMessage)
        ELSE GenericErrorMessage

(***************************************************************************)
(* Messages of the agent state and the inputs the environment draws        *)
(***************************************************************************)
Requests == {1, 2}

ToolNames == {"index_content", "query_video_content"}

StringContent(str) == [kind |-> "string", parts |-> <<str>>]
ArrayContent(parts) == [kind |-> "array", parts |-> parts]

ToolCall(name, args, id) == [name |-> name, args |-> args, id |-> id]

AIMessage(content, tool_calls) ==
    [type |-> "ai", content |-> content, tool_calls |-> tool_calls]

\* name is optional: None is a ToolMessage built without a name
ToolMessage(content, tool_call_id, name) ==
    [type |-> "tool", content |-> content, tool_call_id |-> tool_call_id, name |-> name]

HumanMessage(content) == [type |-> "human", content |-> content]

\* a chunk whose messages array is empty has no last message
NoMessage == [type |-> "none"]

IndexCall(id) ==
    ToolCall("index_content", {<<"videoUrlOrId", "https://youtu.be/dQw4w9WgXcQ">>}, id)
QueryCall(id) ==
    ToolCall("query_video_content",
             {<<"videoId", "dQw4w9WgXcQ">>, <<"question", "what's <new>?">>}, id)

\* answer texts: the second extends the first, the third extends the second
Answers == {"", "The video", "The video covers <b>A/B</b>"}

ToolCallLists ==
    {<<IndexCall("call_1")>>, <<QueryCall("call_1")>>,
     <<IndexCall("call_1"), QueryCall("call_2")>>,
     <<IndexCall("call_1"), IndexCall("call_2")>>}

ModelOutputs ==
    {AIMessage(StringContent(a), <<>>) : a \in Answers}
    \cup {AIMessage(ArrayContent(<<"The ", "video">>), <<>>)}
    \cup {AIMessage(StringContent(""), tc) : tc \in ToolCallLists}
    \cup {AIMessage(StringContent("The video"), <<IndexCall("call_1")>>)}

ToolErrorKinds ==
    {"ValidationError", "VideoNotFoundError", "TranscriptNotFoundError",
     "IndexingError", "QueryError", "Error", "string"}

\* what running a tool's own handler does: it returns text or throws a value
ToolOutcomes ==
    {[kind |-> "ok", message |-> "Successfully indexed video dQw4w9WgXcQ into 25 chunks."]}
    \cup {[kind |-> k, message |-> "upsert failed"] : k \in ToolErrorKinds}
    \cup {[kind |-> "Error", message |-> ""]}

\* what the Model call or the stream setup can throw
StreamErrors ==
    {[kind |-> "Error", message |-> "Request timeout after 60000ms"],
     [kind |-> "Error", message |-> "401 Incorrect API key provided: sk-proj"]}

Methods == {"POST", "GET"}
Urls == {None, Some("  "), Some("https://example.com/watch?v=dQw4w9WgXcQ"),
         Some("https://youtu.be/dQw4w9WgXcQ")}
MaxQuestionLength == 500
Questions == {None, Some(" "), Some("What is it about?"),
              Some(Repeat("q", MaxQuestionLength + 1))}

(***************************************************************************)
(* src/lib/toolErrorHandler.ts                                             *)
(***************************************************************************)
\* the text the catch block builds for a thrown value
ToolErrorMessage(error) ==
    CASE error.kind = "ValidationError" ->
            "Input validation error: " \o error.message
      [] error.kind = "VideoNotFoundError" ->
            "Video not found: " \o error.message \o ". Please check the URL and try again."
      [] error.kind = "TranscriptNotFoundError" ->
            "Transcript not available: " \o error.message
                \o ". This video may not have captions/subtitles enabled."
      [] error.kind = "IndexingError" ->
            "Indexing failed: " \o error.message
                \o ". Please try again or contact support if the issue persists."
      [] error.kind = "QueryError" ->
            "Search failed: " \o error.message
                \o ". Make sure the video has been indexed first."
      [] error.kind = "Error" ->
            "Tool error: " \o error.message
      [] OTHER ->
            "An unexpected error occurred: " \o error.message

\* a catch block that handles Error instances only and rethrows any other value
ToolCatchErrorsOnly(toolCall, error) ==
    IF error.kind = "string"
    THEN [kind |-> "throw", error |-> error]
    ELSE [kind |-> "return",
          message |-> ToolMessage(StringContent(ToolErrorMessage(error)),
                                  Some(toolCall.id), None)]

\* the catch block of wrapToolCall: what it gives back for a thrown value
ToolCatch(toolCall, error) ==
    [kind |-> "return",
     message |-> ToolMessage(StringContent(ToolErrorMessage(error)), Some(toolCall.id), None)]

\* wrapToolCall(request, handler): the handler's own ToolMessage when it returns,
\* the catch block's when it throws
wrapToolCall(toolCall, outcome) ==
    IF outcome.kind = "ok"
    THEN [kind |-> "return",
          message |-> ToolMessage(StringContent(outcome.message), Some(toolCall.id),
                                  Some(toolCall.name))]
    ELSE ToolCatch(toolCall, outcome)

(***************************************************************************)
(* src/lib/rateLimit.ts: getClientIdentifier, isValidIp                    *)
(***************************************************************************)
\* TRUSTED_PROXY_CONFIG.maxProxyHops
maxProxyHops == 1

\* String.prototype.split with a one-character separator
RECURSIVE SplitFrom(_, _, _, _)
SplitFrom(str, sep, start, i) ==
    IF i > Len(str) THEN <<SubSeq(str, start, Len(str))>>
    ELSE IF SubSeq(str, i, i) = sep
    THEN <<SubSeq(str, start, i - 1)>> \o SplitFrom(str, sep, i + 1, i + 1)
    ELSE SplitFrom(str, sep, start, i + 1)

Split(str, sep) == SplitFrom(str, sep, 1, 1)

Digits == "0123456789"
HexLetters == "abcdefABCDEF"

CharsOf(str) == {SubSeq(str, i, i) : i \in 1..Len(str)}

\* \d{1,3}
IsDigits(str, maxLen) ==
    Len(str) \in 1..maxLen /\ CharsOf(str) \subseteq CharsOf(Digits)

\* [\da-fA-F]{1,4}
IsHexGroup(str) ==
    Len(str) \in 1..4 /\ CharsOf(str) \subseteq (CharsOf(Digits) \cup CharsOf(HexLetters))

DigitValue(c) == CHOOSE d \in 0..9 : SubSeq(Digits, d + 1, d + 1) = c

\* parseInt(octet, 10) of a string of digits
RECURSIVE parseInt(_)
parseInt(str) ==
    IF str = "" THEN 0
    ELSE 10 * parseInt(SubSeq(str, 1, Len(str) - 1)) + DigitValue(SubSeq(str, Len(str), Len(str)))

\* /^(\d{1,3}\.){3}\d{1,3}$/
ipv4Regex(ip) ==
    LET parts == Split(ip, ".")
    IN  Len(parts) = 4 /\ \A i \in 1..4 : IsDigits(parts[i], 3)

\* /^([\da-fA-F]{1,4}:){7}[\da-fA-F]{1,4}$|^::1$|^fe80:/
ipv6Regex(ip) ==
    LET groups == Split(ip, ":")
    IN  \/ Len(groups) = 8 /\ \A i \in 1..8 : IsHexGroup(groups[i])
        \/ ip = "::1"
        \/ Len(ip) >= 5 /\ SubSeq(ip, 1, 5) = "fe80:"

isValidIp(ip) ==
    IF ~ipv4Regex(ip) /\ ~ipv6Regex(ip)
    THEN FALSE
    ELSE IF ipv4Regex(ip)
    THEN LET octets == Split(ip, ".")
         IN  \A i \in DOMAIN octets : parseInt(octets[i]) >= 0 /\ parseInt(octets[i]) <= 255
    ELSE TRUE

\* A request as the limiter sees it: req.socket.remoteAddress (optional) and the
\* x-forwarded-for header, absent (None), one string, or an array of strings.
Req(remoteAddress, forwardedFor) ==
    [remoteAddress |-> remoteAddress, forwardedFor |-> forwardedFor]
HeaderString(value) == Some([kind |-> "string", value |-> value])
HeaderArray(values) == Some([kind |-> "array", values |-> values])

\* req.socket.remoteAddress || "unknown"
RemoteAddress(req) ==
    IF req.remoteAddress = None \/ req.remoteAddress[1] = ""
    THEN "unknown" ELSE req.remoteAddress[1]

\* Array.isArray(forwardedFor) ? forwardedFor[0] : forwardedFor
ForwardedIps(forwardedFor) ==
    IF forwardedFor.kind = "array"
    THEN IF forwardedFor.values = <<>> THEN None ELSE Some(forwardedFor.values[1])
    ELSE Some(forwardedFor.value)

\* a configuration that trusts the header whatever the deployment
TrustsAnyDeployment(trust) == TRUE

\* TRUSTED_PROXY_CONFIG.trustProxy
TrustsProxy(trust) == trust

getClientIdentifier(trust, req) ==
    IF ~TrustsProxy(trust)
    THEN RemoteAddress(req)
    ELSE IF req.forwardedFor = None
            \/ (req.forwardedFor[1].kind = "string" /\ req.forwardedFor[1].value = "")
    THEN RemoteAddress(req)
    ELSE LET forwardedIps == ForwardedIps(req.forwardedFor[1])
         IN  IF forwardedIps = None \/ forwardedIps = Some("")
             THEN RemoteAddress(req)
             ELSE LET split == Split(forwardedIps[1], ",")
                      ipList == [i \in DOMAIN split |-> Trim(split[i])]
                  IN  IF Len(ipList) > maxProxyHops + 1
                      THEN RemoteAddress(req)
                      ELSE IF ~isValidIp(ipList[1])
                      THEN RemoteAddress(req)
                      ELSE ipList[1]

(***************************************************************************)
(* src/lib/rateLimit.ts: RateLimiter                                       *)
(***************************************************************************)
\* new RateLimiter(10, 60000)
maxRequests == 10
windowMs == 60000

Identifiers == {"10.0.0.1", "10.0.0.2"}

\* the instants Date.now() takes in the model
Times == {k * windowMs + j : k \in 0..MaxWindows, j \in 0..MaxJitter}

\* a window that ends as soon as its reset time is reached
IsExpiredAtReset(record, t) == t >= record.resetTime

\* now > record.resetTime
IsExpired(record, t) == t > record.resetTime

\* a limiter that counts the requests of a window and allows them all
isAllowedUnlimited(st, identifier, t) ==
    LET record == st[identifier]
    IN  IF record = None \/ IsExpired(record[1], t)
        THEN [allowed |-> TRUE,
              store |-> [st EXCEPT ![identifier] =
                            Some([count |-> 1, resetTime |-> t + windowMs])]]
        ELSE [allowed |-> TRUE,
              store |-> [st EXCEPT ![identifier] =
                            Some([record[1] EXCEPT !.count = @ + 1])]]

\* a limiter that decides as isAllowed does and counts nothing
isAllowedUncounted(st, identifier, t) ==
    LET record == st[identifier]
    IN  [allowed |-> record = None \/ IsExpired(record[1], t)
                        \/ record[1].count < maxRequests,
         store |-> st]

\* isAllowed(identifier) at time t: the result and the store it leaves
isAllowed(st, identifier, t) ==
    LET record == st[identifier]
    IN  IF record = None \/ IsExpired(record[1], t)
        THEN [allowed |-> TRUE,
              store |-> [st EXCEPT ![identifier] =
                            Some([count |-> 1, resetTime |-> t + windowMs])]]
        ELSE IF record[1].count < maxRequests
        THEN [allowed |-> TRUE,
              store |-> [st EXCEPT ![identifier] =
                            Some([record[1] EXCEPT !.count = @ + 1])]]
        ELSE [allowed |-> FALSE, store |-> st]

\* getInfo(identifier) at time t
getInfo(st, identifier, t) ==
    LET record == st[identifier]
    IN  IF record = None \/ t > record[1].resetTime
        THEN [remaining |-> maxRequests, resetTime |-> t + windowMs, limit |-> maxRequests]
        ELSE [remaining |-> IF maxRequests - record[1].count > 0
                            THEN maxRequests - record[1].count ELSE 0,
              resetTime |-> record[1].resetTime,
              limit |-> maxRequests]

\* a sweep that also deletes the entries whose reset time is the current instant
cleanupAtReset(st, t) ==
    [identifier \in DOMAIN st |->
        IF st[identifier] # None /\ t >= st[identifier][1].resetTime
        THEN None ELSE st[identifier]]

\* cleanup() at time t: the store without its expired entries
cleanup(st, t) ==
    [identifier \in DOMAIN st |->
        IF st[identifier] # None /\ t > st[identifier][1].resetTime
        THEN None ELSE st[identifier]]

\* the window and decision as the specification describes them: the first request
\* opens a window (counter 1, reset t + W); a request no later than the reset time
\* is allowed and counted while the counter is below N and denied, uncounted, once
\* it is N; the first request after the reset time opens a new window
ClaimedStep(window, t) ==
    IF window = None
    THEN [allowed |-> TRUE, window |-> Some([count |-> 1, resetTime |-> t + windowMs])]
    ELSE IF t <= window[1].resetTime
    THEN IF window[1].count < maxRequests
         THEN [allowed |-> TRUE,
               window |-> Some([count |-> window[1].count + 1,
                                resetTime |-> window[1].resetTime])]
         ELSE [allowed |-> FALSE, window |-> window]
    ELSE [allowed |-> TRUE, window |-> Some([count |-> 1, resetTime |-> t + windowMs])]

\* rateLimiter.isAllowed(identifier) runs
IsAllowedStep(identifier) ==
    LET result == isAllowed(store, identifier, now)
        expected == ClaimedStep(claimed.window[identifier], now)
    IN  /\ store' = result.store
        /\ lastDecision' = Some([identifier |-> identifier, allowed |-> result.allowed])
        /\ claimed' = [window |-> [claimed.window EXCEPT ![identifier] = expected.window],
                       decision |-> Some([identifier |-> identifier,
                                          allowed |-> expected.allowed])]
        /\ unswept' = isAllowed(unswept, identifier, now).store
        /\ UNCHANGED now

\* a request of one client reaches rateLimiter.isAllowed
IsAllowedCall(identifier) ==
    /\ IsAllowedStep(identifier)
    /\ UNCHANGED <<streamVars, admitVars, fetchVars, toolVars>>

\* the interval timer of the constructor fires
Cleanup ==
    /\ store' = cleanup(store, now)
    /\ UNCHANGED <<now, lastDecision, claimed, unswept>>
    /\ UNCHANGED <<streamVars, admitVars, fetchVars, toolVars>>

\* time passes
Tick(t) ==
    /\ t > now
    /\ now' = t
    /\ UNCHANGED <<store, lastDecision, claimed, unswept>>
    /\ UNCHANGED <<streamVars, admitVars, fetchVars, toolVars>>

RateNext ==
    \/ \E identifier \in Identifiers : IsAllowedCall(identifier)
    \/ Cleanup
    \/ \E t \in Times : Tick(t)


(***************************************************************************)
(* src/lib/rateLimit.ts: withRateLimit                                     *)
(***************************************************************************)
\* the requests that reach the wrapper: two peers, without the header and with a
\* header naming the second peer
AdmitPeers == {"10.0.0.1", "10.0.0.2"}
AdmitHeaders == {None, HeaderString("10.0.0.2")}
AdmitRequests ==
    {Req(Some(remoteAddress), forwardedFor) :
        remoteAddress \in AdmitPeers, forwardedFor \in AdmitHeaders}

\* getClientIdentifier(req), tabulated over the requests that reach the wrapper
RECURSIVE IdentifierTable(_)
IdentifierTable(inputs) ==
    IF inputs = {} THEN <<>>
    ELSE LET p == CHOOSE q \in inputs : TRUE
         IN  (p :> getClientIdentifier(p[1], p[2])) @@ IdentifierTable(inputs \ {p})

ClientIdentifier == IdentifierTable(BOOLEAN \X AdmitRequests)

\* Math.ceil(x / 1000) on whole milliseconds
CeilSeconds(x) == -((-x) \div 1000)

\* The wrapper at time t. It reads the clock in getInfo, in isAllowed and again for
\* retryAfter; the three reads are consecutive synchronous statements and are
\* modelled as one instant.
withRateLimit(st, trust, req, t) ==
    LET identifier == ClientIdentifier[<<trust, req>>]
        info == getInfo(st, identifier, t)
        result == isAllowed(st, identifier, t)
    IN  [identifier |-> identifier,
         info |-> info,
         allowed |-> result.allowed,
         store |-> result.store,
         status |-> IF result.allowed THEN None ELSE Some(429),
         retryAfter |-> IF result.allowed THEN None
                        ELSE Some(CeilSeconds(info.resetTime - t))]


\* the instants of the wrapper's runs: the start, and the last millisecond before
\* and the instant of each multiple of the window length
AdmitTimes == {0} \cup {k * windowMs - j : k \in 1..MaxAdmitWindows, j \in {0, 1}}

\* a request reaches the wrapper; a second limiter is reached at the same instant by
\* a request of the same peer carrying another header (it is followed in the
\* deployments without a trusted proxy)
WithRateLimit(req, otherHeader) ==
    LET result == withRateLimit(store, trustProxy, req, now)
        other == withRateLimit(twin, trustProxy,
                               Req(req.remoteAddress, otherHeader), now)
    IN  /\ IsAllowedStep(result.identifier)
        /\ twin' = IF trustProxy THEN twin ELSE other.store
        /\ admission' = Some([req |-> req,
                              at |-> now,
                              identifier |-> result.identifier,
                              resetTime |-> result.store[result.identifier][1].resetTime,
                              allowed |-> result.allowed,
                              status |-> result.status,
                              retryAfter |-> result.retryAfter,
                              otherHeader |-> otherHeader,
                              otherAllowed |-> IF trustProxy THEN result.allowed
                                               ELSE other.allowed])
        /\ UNCHANGED <<trustProxy, admittedAt, identified>>
        /\ UNCHANGED <<streamVars, fetchVars, toolVars>>

AdmitCleanup ==
    /\ store' = cleanup(store, now)
    /\ twin' = cleanup(twin, now)
    /\ UNCHANGED <<now, lastDecision, claimed, unswept>>
    /\ UNCHANGED <<trustProxy, admission, admittedAt, identified>>
    /\ UNCHANGED <<streamVars, fetchVars, toolVars>>

AdmitNext ==
    \/ \E remoteAddress \in AdmitPeers, forwardedFor \in AdmitHeaders,
          otherHeader \in AdmitHeaders :
           WithRateLimit(Req(Some(remoteAddress), forwardedFor), otherHeader)
    \/ AdmitCleanup
    \/ \E t \in AdmitTimes : Tick(t)

\* the instants of the runs that count admissions
SlideTimes == {k * windowMs + j : k \in 0..MaxSlideWindows, j \in {0, 1}}

\* a request of the counted client reaches rateLimiter.isAllowed
SlidingCall(identifier) ==
    /\ IsAllowedStep(identifier)
    /\ admittedAt' = [admittedAt EXCEPT ![now] =
                         IF isAllowed(store, identifier, now).allowed THEN @ + 1 ELSE @]
    /\ UNCHANGED <<trustProxy, admission, twin, identified>>
    /\ UNCHANGED <<streamVars, fetchVars, toolVars>>

SlideNext ==
    \/ SlidingCall("10.0.0.1")
    \/ Cleanup
    \/ \E t \in SlideTimes : Tick(t)

\* the requests getClientIdentifier is applied to
IdentPeers == {None, Some(""), Some("10.0.0.1")}
IdentHeaders ==
    {None, HeaderString(""), HeaderString("10.0.0.2"), HeaderString(" 10.0.0.2 "),
     HeaderString("10.0.0.2, 10.0.0.3"), HeaderString("10.0.0.2, 10.0.0.3, 10.0.0.4"),
     HeaderString("256.0.0.1"), HeaderString("10.0.0"), HeaderString("1234.0.0.1"),
     HeaderString("::1"), HeaderString("fe80::1"), HeaderString("2001:db8:0:0:0:0:0:1"),
     HeaderString("2001:db8::1"), HeaderString("evil"), HeaderString(",10.0.0.2"),
     HeaderArray(<<>>), HeaderArray(<<"10.0.0.2">>),
     HeaderArray(<<"10.0.0.2", "10.0.0.5">>)}

\* getClientIdentifier(req) runs
GetClientIdentifier(req) ==
    /\ identified' = Some([req |-> req, identifier |-> getClientIdentifier(trustProxy, req)])
    /\ UNCHANGED <<trustProxy, admission, twin, admittedAt>>
    /\ UNCHANGED <<streamVars, rateVars, fetchVars, toolVars>>

IdentNext ==
    \E remoteAddress \in IdentPeers, forwardedFor \in IdentHeaders :
        GetClientIdentifier(Req(remoteAddress, forwardedFor))

\* The wrapper, statement by statement, for the requests the handler is followed
\* with: getInfo and the headers first, then isAllowed and the 429 answer or the
\* call of the handler. The wrapper is synchronous, so no other request runs in
\* between, but the clock may advance from one statement to the next.
WrapRequest == Req(Some("10.0.0.1"), None)

\* the instants of these runs: the start, the reset time of a window opened at the
\* start, and the millisecond after it
WrapTimes == {0, windowMs, windowMs + 1}

\* the windows the client can have at the start: none, or one, maxRequests - 1 or
\* maxRequests requests counted in a window opened at instant 0
WrapWindows ==
    {None} \cup {Some([count |-> c, resetTime |-> windowMs]) :
                     c \in {1, maxRequests - 1, maxRequests}}

\* a request is in the wrapper between its two statements
InWrapper == admission # None /\ admission[1].stage = "headers"

\* the wrapper called the handler and the handler has not run its first statement
AtHandler == \E r \in reqs : pc[r] = "idle"

\* "const info = rateLimiter.getInfo(identifier)" and the three X-RateLimit headers
SetHeaders(r) ==
    LET identifier == ClientIdentifier[<<trustProxy, WrapRequest>>]
        info == getInfo(store, identifier, now)
    IN  /\ ~InWrapper
        /\ ~AtHandler
        /\ r \notin reqs
        /\ statusCode[r] = 200
        /\ admission' = Some([stage |-> "headers", r |-> r, identifier |-> identifier,
                              info |-> info, at |-> now,
                              remainingHeader |-> ToString(info.remaining)])
        /\ UNCHANGED <<trustProxy, twin, admittedAt, identified>>
        /\ UNCHANGED <<streamVars, rateVars, fetchVars, toolVars>>

\* "if (!rateLimiter.isAllowed(identifier))": the 429 answer, or handler(req, res)
Decide ==
    /\ InWrapper
    /\ LET call == admission[1]
           result == isAllowed(store, call.identifier, now)
       IN  /\ store' = result.store
           /\ admission' = Some([stage |-> "decided", r |-> call.r,
                                 identifier |-> call.identifier, info |-> call.info,
                                 at |-> call.at,
                                 remainingHeader |-> call.remainingHeader,
                                 decidedAt |-> now,
                                 allowed |-> result.allowed,
                                 before |-> store[call.identifier],
                                 retryAfter |-> IF result.allowed THEN None
                                                ELSE Some(CeilSeconds(call.info.resetTime - now))])
           /\ reqs' = IF result.allowed THEN reqs \cup {call.r} ELSE reqs
           /\ statusCode' = IF result.allowed THEN statusCode
                             ELSE [statusCode EXCEPT ![call.r] = 429]
    /\ UNCHANGED <<now, lastDecision, claimed, unswept>>
    /\ UNCHANGED <<trustProxy, twin, admittedAt, identified>>
    /\ UNCHANGED <<pc, events, messageBuffer, lastToolName, sentMessages, toolCalls,
                   snapshots, thrown, toolRun, body>>
    /\ UNCHANGED <<fetchVars, toolVars>>

\* no request has reached the wrapper; the deployment is not behind a trusted proxy
AdmitIdle ==
    /\ trustProxy = FALSE
    /\ admission = None
    /\ twin = [identifier \in Identifiers |-> None]
    /\ admittedAt = [t \in SlideTimes |-> 0]
    /\ identified = None

\* either deployment
AdmitStart ==
    /\ trustProxy \in BOOLEAN
    /\ admission = None
    /\ twin = [identifier \in Identifiers |-> None]
    /\ admittedAt = [t \in SlideTimes |-> 0]
    /\ identified = None

(***************************************************************************)
(* src/yt/loader.ts: retryWithBackoff, fetchTranscript                     *)
(***************************************************************************)
\* the defaults of fetchTranscript's options and the multiplier it passes
defaultMaxRetries == 3
defaultRetryDelay == 1000
backoffMultiplier == 2

\* what one invocation of the source (loader.load()) does: it returns documents,
\* none or some, with text or all of them without, or throws an Error or a value
\* that is not an Error; a document is given by its pageContent
SourceOutcomes ==
    {[kind |-> "docs", docs |-> <<"never gonna give you up">>],
     [kind |-> "docs", docs |-> <<>>],
     [kind |-> "docs", docs |-> <<"", "">>],
     [kind |-> "Error", message |-> "Transcript is disabled on this video"],
     [kind |-> "string", message |-> "ETIMEDOUT"]}

\* the observer hook: not passed, resolving, or rejecting
HookModes == {"absent", "returns", "throws"}
HookError == [kind |-> "Error", message |-> "progress reporter failed"]

\* error instanceof Error ? error : new Error(String(error))
AsError(error) ==
    IF error.kind = "string" THEN [kind |-> "Error", message |-> error.message] ELSE error

\* a delay that grows by initialDelay with each attempt
LinearDelay(initialDelay, multiplier, attempt) == initialDelay * (attempt + 1)

\* initialDelay * Math.pow(backoffMultiplier, attempt)
BackoffDelay(initialDelay, multiplier, attempt) == initialDelay * multiplier ^ attempt

\* Array.prototype.join with a separator
RECURSIVE JoinWith(_, _)
JoinWith(parts, sep) ==
    IF parts = <<>> THEN ""
    ELSE IF Len(parts) = 1 THEN parts[1]
    ELSE parts[1] \o sep \o JoinWith(Tail(parts), sep)

\* what fetchTranscript makes of the outcome of retryWithBackoff, for video id
fetchTranscript(id, result) ==
    LET failure == IF result.kind = "throw"
                   THEN result.error
                   ELSE IF result.value.docs = <<>>
                   THEN Some([kind |-> "Error",
                              message |-> "No transcript found for video: " \o id])
                   ELSE None
    IN  IF failure = None
        THEN [kind |-> "return", id |-> id,
              text |-> JoinWith(SelectSeq(result.value.docs,
                                          LAMBDA content : Len(content) > 0), " "),
              docs |-> result.value.docs]
        ELSE [kind |-> "throw",
              error |-> [kind |-> "Error",
                         message |-> "Failed to fetch transcript for video " \o id
                                         \o ": " \o failure[1].message,
                         cause |-> failure]]

\* the video the modelled calls of fetchTranscript are about
FetchVideoId == "dQw4w9WgXcQ"

\* a call retryWithBackoff(fn, maxRetries, initialDelay, backoffMultiplier, onRetry)
\* made by fetchTranscript, at its start; source[k] is what the k-th invocation of
\* fn will do; transcript is what fetchTranscript returns or throws once the call
\* has settled
RetryCall(maxRetries, hook, source) ==
    [pc |-> "try", attempt |-> 0, lastError |-> None, result |-> None,
     maxRetries |-> maxRetries, initialDelay |-> defaultRetryDelay,
     backoffMultiplier |-> backoffMultiplier, hook |-> hook, source |-> source,
     calls |-> <<>>, hookCalls |-> <<>>, delays |-> <<>>, transcript |-> None]

FetchRuns == {1, 2}

\* one pass of the loop body: the hook, fn(attempt), and on a throw the catch block
\* up to the start of its timer
Attempt(run) ==
    /\ fetch # None
    /\ fetch[run].pc = "try"
    /\ fetch[run].attempt <= fetch[run].maxRetries
    /\ LET f == fetch[run]
           hookRuns == f.attempt > 0 /\ f.hook # "absent"
           hookThrows == hookRuns /\ f.hook = "throws"
           outcome == f.source[Len(f.calls) + 1]
           caught == IF hookThrows THEN Some(HookError)
                     ELSE IF outcome.kind = "docs" THEN None
                     ELSE Some(AsError(outcome))
           observed == [f EXCEPT
                           !.hookCalls = IF hookRuns THEN Append(@, f.attempt) ELSE @,
                           !.calls = IF hookThrows THEN @ ELSE Append(@, f.attempt)]
       IN  fetch' = [fetch EXCEPT ![run] =
               IF caught = None
               THEN [observed EXCEPT !.pc = "returned",
                                     !.result = Some([kind |-> "return", value |-> outcome]),
                                     !.transcript = Some(fetchTranscript(FetchVideoId,
                                                        [kind |-> "return", value |-> outcome]))]
               ELSE IF f.attempt < f.maxRetries
               THEN [observed EXCEPT !.lastError = caught,
                                     !.delays = Append(@, BackoffDelay(f.initialDelay,
                                                   f.backoffMultiplier, f.attempt)),
                                     !.pc = "wait"]
               ELSE [observed EXCEPT !.lastError = caught, !.attempt = @ + 1]]
    /\ UNCHANGED <<streamVars, rateVars, admitVars, toolVars>>

\* the timer of the catch block fires: the loop goes to its next attempt
Sleep(run) ==
    /\ fetch # None
    /\ fetch[run].pc = "wait"
    /\ fetch' = [fetch EXCEPT ![run].pc = "try", ![run].attempt = @ + 1]
    /\ UNCHANGED <<streamVars, rateVars, admitVars, toolVars>>

\* the loop is over: throw lastError
Exhausted(run) ==
    /\ fetch # None
    /\ fetch[run].pc = "try"
    /\ fetch[run].attempt > fetch[run].maxRetries
    /\ LET rejection == [kind |-> "throw", error |-> fetch[run].lastError]
       IN  fetch' = [fetch EXCEPT ![run].pc = "thrown",
                                  ![run].result = Some(rejection),
                                  ![run].transcript =
                                      Some(fetchTranscript(FetchVideoId, rejection))]
    /\ UNCHANGED <<streamVars, rateVars, admitVars, toolVars>>

FetchNext ==
    \E run \in FetchRuns : Attempt(run) \/ Sleep(run) \/ Exhausted(run)

\* [a-zA-Z0-9_-]
IdChars == CharsOf(UpperChars \o LowerChars \o Digits \o "_-")

\* [a-zA-Z0-9_-]{11} at position p of str
IsIdAt(str, p) ==
    /\ p + 10 <= Len(str)
    /\ \A i \in p..(p + 10) : SubSeq(str, i, i) \in IdChars

\* the characters . does not match
LineTerminators == {"\n", "\r"}

\* YOUTUBE_URL_PATTERNS: after the optional scheme and www., which may begin
\* anywhere in the input, each pattern has a literal, the identifier, and up to the
\* end of the input an optional tail that begins with one of the pattern's
\* characters
YOUTUBE_URL_PATTERNS ==
    <<[name |-> "standard", literal |-> "youtube.com/watch?v=", tail |-> {"&", "?"}],
      [name |-> "short", literal |-> "youtu.be/", tail |-> {"?"}],
      [name |-> "embed", literal |-> "youtube.com/embed/", tail |-> {"?"}],
      [name |-> "mobile", literal |-> "m.youtube.com/watch?v=", tail |-> {"&", "?"}]>>

\* the pattern matches with its literal at position p of the input
MatchesAt(input, pattern, p) ==
    LET id == p + Len(pattern.literal)
        rest == id + 11
    IN  /\ rest <= Len(input) + 1
        /\ SubSeq(input, p, id - 1) = pattern.literal
        /\ IsIdAt(input, id)
        /\ \/ rest = Len(input) + 1
           \/ /\ rest <= Len(input)
              /\ SubSeq(input, rest, rest) \in pattern.tail
              /\ \A i \in (rest + 1)..Len(input) :
                     SubSeq(input, i, i) \notin LineTerminators

\* a match that has to begin with the first character of the input
MatchFromStart(input, pattern) ==
    IF MatchesAt(input, pattern, 1)
    THEN Some(SubSeq(input, 1 + Len(pattern.literal), 11 + Len(pattern.literal)))
    ELSE None

\* input.match(pattern): group 1 of the leftmost match, if there is a match
Match(input, pattern) ==
    LET found == {p \in 1..Len(input) : MatchesAt(input, pattern, p)}
    IN  IF found = {} THEN None
        ELSE LET p == CHOOSE q \in found : \A r \in found : q <= r
             IN  Some(SubSeq(input, p + Len(pattern.literal),
                             p + Len(pattern.literal) + 10))

\* the first of the patterns from position k on that matches, or null
RECURSIVE FirstMatch(_, _)
FirstMatch(input, k) ==
    IF k > Len(YOUTUBE_URL_PATTERNS) THEN None
    ELSE IF Match(input, YOUTUBE_URL_PATTERNS[k]) # None
    THEN Match(input, YOUTUBE_URL_PATTERNS[k])
    ELSE FirstMatch(input, k + 1)

\* extractVideoId(input): the identifier, or null (None)
extractVideoId(input) ==
    IF Trim(input) = "" THEN None
    ELSE IF Len(input) = 11 /\ IsIdAt(input, 1) THEN Some(input)
    ELSE FirstMatch(input, 1)

\* identifiers, and the inputs built around them: the bare identifier and the URL
\* shapes with and without scheme, www. and trailing query parameters; and inputs
\* that are neither: blank, other text, identifiers of another length, and URLs of
\* other hosts, some of which carry a video URL in their path or query
SampleIds == {"dQw4w9WgXcQ", "9bZkp7q19f0", "a-B_c-D_e-0"}

UrlShapes ==
    {[host |-> "youtube.com/watch?v=", more |-> "&"],
     [host |-> "youtu.be/", more |-> "?"],
     [host |-> "youtube.com/embed/", more |-> "?"],
     [host |-> "m.youtube.com/watch?v=", more |-> "&"]}

UrlInputs ==
    {[input |-> scheme \o www \o shape.host \o id
                    \o (IF params = "" THEN "" ELSE shape.more \o params),
      id |-> Some(id)] :
        scheme \in {"", "http://", "https://"}, www \in {"", "www."},
        shape \in UrlShapes, id \in SampleIds, params \in {"", "t=5", "list=PL1&index=2"}}

ExtractInputs ==
    UrlInputs
        \cup {[input |-> id, id |-> Some(id)] : id \in SampleIds}
        \cup {[input |-> input, id |-> None] :
                 input \in {"", "   ", "not a video", "dQw4w9WgXcQ1",
                            "https://youtu.be/dQw4w9", "https://vimeo.com/dQw4w9WgXcQ",
                            "https://youtu.be/dQw4w9WgXcQ/live",
                            "https://evil.example/?u=https://youtu.be/dQw4w9WgXcQ",
                            "https://evil.example/youtube.com/embed/dQw4w9WgXcQ",
                            "https://notyoutube.com/watch?v=dQw4w9WgXcQ"}}

\* one application of extractVideoId
ExtractVideoId ==
    /\ applied.fn = "extractVideoId"
    /\ applied.output = None
    /\ applied' = [applied EXCEPT !.output = Some(extractVideoId(applied.input))]
    /\ UNCHANGED <<streamVars, rateVars, admitVars, fetchVars, manager, namespaces, ragCall,
                   passes, batch>>

ExtractNext == ExtractVideoId

ExtractStart ==
    \E given \in ExtractInputs :
        applied = [fn |-> "extractVideoId", input |-> given.input, id |-> given.id,
                   output |-> None]

\* no transcript fetch is under way
FetchIdle == fetch = None

\* two calls given the same source outcomes and retry budget: the first with any
\* observer hook, the second without one
FetchStart ==
    \E maxRetries \in 0..defaultMaxRetries, hook \in HookModes :
        \E source \in [1..(maxRetries + 1) -> SourceOutcomes] :
            fetch = [run \in FetchRuns |->
                        RetryCall(maxRetries, IF run = 1 THEN hook ELSE "absent", source)]

(***************************************************************************)
(* src/lib/agentManager.ts                                                 *)
(***************************************************************************)
defaultModelName == "gpt-4o-mini"

ModelNames == {defaultModelName, "gpt-4o", "gpt-4.1"}

\* the module before any call: no manager yet. built[a] is the model name agent a
\* was constructed with, made counts the managers constructed, last is the latest
\* call, sinceReset counts the agents constructed since the agent was last
\* discarded, and held is what getAgent returned last since then
NoManager ==
    [instance |-> None, agent |-> None, modelName |-> defaultModelName,
     built |-> <<>>, made |-> 0, last |-> None, sinceReset |-> 0, held |-> None]

\* a getAgent that constructs an agent at every call
AlwaysMissing(agent) == TRUE

\* !this.agent
AgentMissing(agent) == agent = None

\* a setModelName that leaves the agent in place
KeepAgent(agent) == agent

\* this.resetAgent() within setModelName
DropAgent(agent) == None

\* AgentManager.getInstance()
GetInstance ==
    /\ manager' = [manager EXCEPT
                      !.instance = IF @ = None THEN Some(manager.made + 1) ELSE @,
                      !.made = IF manager.instance = None THEN @ + 1 ELSE @,
                      !.last = Some([op |-> "getInstance",
                                     result |-> IF manager.instance = None
                                                THEN manager.made + 1
                                                ELSE manager.instance[1]])]
    /\ UNCHANGED <<streamVars, rateVars, admitVars, fetchVars, namespaces, ragCall,
                   passes, applied, batch>>

\* getAgent(): createYouTubeAgent(this.modelName) when there is no agent
GetAgent ==
    /\ manager.instance # None
    /\ IF AgentMissing(manager.agent)
       THEN /\ Len(manager.built) < MaxAgents
            /\ manager' = [manager EXCEPT
                              !.agent = Some(Len(manager.built) + 1),
                              !.built = Append(@, manager.modelName),
                              !.sinceReset = @ + 1,
                              !.last = Some([op |-> "getAgent",
                                             result |-> Len(manager.built) + 1,
                                             held |-> manager.held]),
                              !.held = Some(Len(manager.built) + 1)]
       ELSE manager' = [manager EXCEPT
                           !.last = Some([op |-> "getAgent",
                                          result |-> manager.agent[1],
                                          held |-> manager.held]),
                           !.held = Some(manager.agent[1])]
    /\ UNCHANGED <<streamVars, rateVars, admitVars, fetchVars, namespaces, ragCall,
                   passes, applied, batch>>

\* resetAgent()
ResetAgent ==
    /\ manager.instance # None
    /\ manager' = [manager EXCEPT !.agent = None, !.sinceReset = 0, !.held = None,
                                  !.last = Some([op |-> "resetAgent"])]
    /\ UNCHANGED <<streamVars, rateVars, admitVars, fetchVars, namespaces, ragCall,
                   passes, applied, batch>>

\* setModelName(modelName)
SetModelName(modelName) ==
    /\ manager.instance # None
    /\ IF manager.modelName # modelName
       THEN manager' = [manager EXCEPT
                           !.modelName = modelName,
                           !.agent = DropAgent(@),
                           !.sinceReset = IF DropAgent(manager.agent) = None
                                          THEN 0 ELSE @,
                           !.held = None,
                           !.last = Some([op |-> "setModelName", changed |-> TRUE])]
       ELSE manager' = [manager EXCEPT
                           !.last = Some([op |-> "setModelName", changed |-> FALSE,
                                          agent |-> manager.agent])]
    /\ UNCHANGED <<streamVars, rateVars, admitVars, fetchVars, namespaces, ragCall,
                   passes, applied, batch>>

ManagerNext ==
    \/ GetInstance
    \/ GetAgent
    \/ ResetAgent
    \/ \E modelName \in ModelNames : SetModelName(modelName)

\* the manager is not in use
ManagerIdle == manager = None

ManagerStart == manager = NoManager

(***************************************************************************)
(* src/lib/compression.ts                                                  *)
(***************************************************************************)
\* passages of transcripts
ChorusPassage ==
    "The chorus repeats the famous lyrics twice. Then a short bridge follows the verse. Ok."
VersePassage == "the second verse goes on about the weather"
ShortPassage == "Yes. No. Maybe so."

\* String.prototype.split with a regular expression that matches a run of the
\* characters seps, scanning from position i with the current piece begun at start
RECURSIVE SplitRunsFrom(_, _, _, _)
SplitRunsFrom(str, seps, start, i) ==
    IF i > Len(str) THEN <<SubSeq(str, start, Len(str))>>
    ELSE IF SubSeq(str, i, i) \in seps
    THEN LET after == {j \in (i + 1)..Len(str) : SubSeq(str, j, j) \notin seps}
             next == IF after = {} THEN Len(str) + 1
                     ELSE CHOOSE j \in after : \A k \in after : j <= k
         IN  <<SubSeq(str, start, i - 1)>> \o SplitRunsFrom(str, seps, next, next)
    ELSE SplitRunsFrom(str, seps, start, i + 1)

SplitRuns(str, seps) == SplitRunsFrom(str, seps, 1, 1)

\* /\s+/ and /[.!?]+/
WhiteSpace == {" ", "\t", "\n", "\r"}
SentenceEnds == {".", "!", "?"}

\* Array.prototype.map with trim
TrimAll(parts) == [i \in DOMAIN parts |-> Trim(parts[i])]

\* Array.prototype.slice(0, n)
SliceTo(seq, n) == SubSeq(seq, 1, Min(n, Len(seq)))

\* Array.prototype.sort((a, b) => b.score - a.score): stable, highest score first
RECURSIVE InsertByScore(_, _)
InsertByScore(sorted, item) ==
    IF sorted = <<>> THEN <<item>>
    ELSE IF Head(sorted).score >= item.score
    THEN <<Head(sorted)>> \o InsertByScore(Tail(sorted), item)
    ELSE <<item>> \o sorted

RECURSIVE SortByScore(_)
SortByScore(items) ==
    IF items = <<>> THEN <<>>
    ELSE InsertByScore(SortByScore(SubSeq(items, 1, Len(items) - 1)), items[Len(items)])

\* ContextualCompressor.extractRelevantSentences(text, query, maxSentences)
extractRelevantSentences(text, query, maxSentences) ==
    LET queryTerms == SelectSeq(SplitRuns(ToLower(query), WhiteSpace),
                                LAMBDA term : Len(term) > 3)
        sentences == SelectSeq(TrimAll(SplitRuns(text, SentenceEnds)),
                               LAMBDA s : Len(s) > 20)
        scoredSentences ==
            [i \in DOMAIN sentences |->
                LET lowerSentence == ToLower(sentences[i])
                IN  [sentence |-> sentences[i],
                     score |-> Len(SelectSeq(queryTerms,
                                   LAMBDA term : Includes(lowerSentence, term)))]]
        topScored == SelectSeq(SliceTo(SortByScore(scoredSentences), maxSentences),
                               LAMBDA s : s.score > 0)
        topSentences == [i \in DOMAIN topScored |-> topScored[i].sentence]
    IN  IF Len(topSentences) = 0
        THEN JoinWith(SliceTo(sentences, maxSentences), ". ") \o "."
        ELSE JoinWith(topSentences, ". ") \o "."

\* the default of quickCompress's sentencesPerDoc
defaultSentencesPerDoc == 2

\* quickCompress(docs, query, sentencesPerDoc), docs given by their pageContent
quickCompress(docs, query, sentencesPerDoc) ==
    [i \in DOMAIN docs |->
        [doc |-> docs[i],
         compressed |-> extractRelevantSentences(docs[i], query, sentencesPerDoc)]]

\* the texts, queries and sentence counts the extraction is applied to
QuickTexts ==
    {ChorusPassage, VersePassage, ShortPassage, "",
     "nothing in this one matches at all, okay",
     "Chorus!Lyrics again and again and again!What about it then, tell me now?",
     "What is this song about? It is about a promise that is kept. The chorus says so.",
     "A long sentence that has no keyword in it. The lyrics come in the second one.",
     "lyrics",
     "First the chorus and the lyrics, what about them... Second comes a pause"}

QuickQueries == {"what about the chorus lyrics", "is it so"}

QuickInputs ==
    {[fn |-> "quickCompress", text |-> text, query |-> query, sentencesPerDoc |-> n] :
        text \in QuickTexts, query \in QuickQueries, n \in 1..MaxSentences}

\* one application of quickCompress to a single document
QuickCompress ==
    /\ applied.fn = "quickCompress"
    /\ applied.output = None
    /\ applied' = [applied EXCEPT !.output =
                      Some(quickCompress(<<applied.text>>, applied.query,
                                         applied.sentencesPerDoc)[1].compressed)]
    /\ UNCHANGED <<streamVars, rateVars, admitVars, fetchVars, manager, namespaces, ragCall,
                   passes, batch>>

QuickNext == QuickCompress

\* no compressDocuments call is under way
BatchIdle == batch = None

\* no function is being applied
PureIdle == applied = None

QuickStart ==
    \E input \in QuickInputs :
        applied = [fn |-> input.fn, text |-> input.text, query |-> input.query,
                   sentencesPerDoc |-> input.sentencesPerDoc, output |-> None]

\* the answer that stands for "nothing is relevant"
NotRelevant == "NOT_RELEVANT"

\* what this.model.invoke(prompt) does: it resolves with a string content, resolves
\* with a content that is not a string (given by what String() makes of it), or
\* rejects
ModelResponses ==
    {[kind |-> "string", content |-> Repeat("y", n)] : n \in 0..(MaxPassageLength + 2)}
        \cup {[kind |-> "string", content |-> NotRelevant],
              [kind |-> "string", content |-> " NOT_RELEVANT\n"],
              [kind |-> "string", content |-> "   "],
              [kind |-> "string", content |-> " yyy "],
              [kind |-> "other", content |-> "[object Object]"],
              [kind |-> "throws"]}

\* a compressDocument that takes the Model's text whatever its length
compressDocumentUnchecked(pageContent, response) ==
    IF response.kind = "throws" THEN [content |-> pageContent, compressed |-> FALSE]
    ELSE LET content == IF response.kind = "string" THEN Trim(response.content)
                        ELSE response.content
         IN  IF content = NotRelevant \/ content = ""
             THEN [content |-> "", compressed |-> TRUE]
             ELSE [content |-> content, compressed |-> TRUE]

\* compressDocument(doc, query), given the document's pageContent and what the
\* Model call did; compressedLength < originalLength * 0.8 in tenths
compressDocument(pageContent, response) ==
    IF response.kind = "throws" THEN [content |-> pageContent, compressed |-> FALSE]
    ELSE LET content == IF response.kind = "string" THEN Trim(response.content)
                        ELSE response.content
             originalLength == Len(pageContent)
             compressedLength == Len(content)
         IN  IF content = NotRelevant \/ content = ""
             THEN [content |-> "", compressed |-> TRUE]
             ELSE IF 10 * compressedLength < 8 * originalLength
             THEN [content |-> content, compressed |-> TRUE]
             ELSE [content |-> pageContent, compressed |-> FALSE]

\* the passages the Model-assisted compression is applied to
CompressPassages == {Repeat("x", n) : n \in 0..MaxPassageLength}

\* one application of compressDocument
CompressDocument ==
    /\ applied.fn = "compressDocument"
    /\ applied.output = None
    /\ applied' = [applied EXCEPT !.output =
                      Some(compressDocument(applied.text, applied.response))]
    /\ UNCHANGED <<streamVars, rateVars, admitVars, fetchVars, manager, namespaces, ragCall,
                   passes, batch>>

CompressNext == CompressDocument

CompressStart ==
    \E text \in CompressPassages, response \in ModelResponses :
        applied = [fn |-> "compressDocument", text |-> text, response |-> response,
                   output |-> None]

\* the default of compressDocuments's maxConcurrent
defaultMaxConcurrent == 3

\* the documents of a compressDocuments call, given by their pageContent, all
\* different
BatchDocs(n) == [j \in 1..n |-> Repeat(SubSeq(LowerChars, j, j), 10)]

\* what the Model does with a document of a batch
BatchResponses ==
    {[kind |-> "string", content |-> "yyy"],
     [kind |-> "string", content |-> NotRelevant],
     [kind |-> "throws"]}

\* every document that is left, in one wave
RestOfDocs(i, maxConcurrent, n) == (i + 1)..n

\* docs.slice(i, i + maxConcurrent), as positions counted from 1
BatchSlice(i, maxConcurrent, n) == (i + 1)..Min(i + maxConcurrent, n)

\* the element a callback of batch.map returns
BatchResult(pageContent, response) ==
    LET compression == compressDocument(pageContent, response)
    IN  [doc |-> pageContent,
         compressed |-> compression.content,
         wasCompressed |-> compression.compressed,
         originalLength |-> Len(pageContent),
         compressedLength |-> Len(compression.content)]

\* a call compressDocuments(docs, query, maxConcurrent) at its start; responses[j]
\* is what the Model will do with document j
BatchCall(docs, responses, maxConcurrent) ==
    [pc |-> "loop", i |-> 0, docs |-> docs, responses |-> responses,
     maxConcurrent |-> maxConcurrent, inFlight |-> {}, batchResults |-> <<>>,
     results |-> <<>>, wave |-> {}]

\* the loop condition holds: the batch is cut and every callback of batch.map runs
\* up to its Model call
StartWave ==
    /\ batch.pc = "loop"
    /\ batch.i < Len(batch.docs)
    /\ LET slice == BatchSlice(batch.i, batch.maxConcurrent, Len(batch.docs))
       IN  batch' = [batch EXCEPT !.pc = "await",
                                  !.wave = slice,
                                  !.inFlight = @ \cup slice,
                                  !.batchResults = [j \in slice |-> None]]
    /\ UNCHANGED <<streamVars, rateVars, admitVars, fetchVars, manager, namespaces, ragCall,
                   passes, applied>>

\* the Model call for document j settles, and with it compressDocument and the
\* callback
ModelSettles(j) ==
    /\ batch.pc = "await"
    /\ j \in batch.inFlight
    /\ batch' = [batch EXCEPT
                    !.inFlight = @ \ {j},
                    !.batchResults[j] =
                        Some(BatchResult(batch.docs[j], batch.responses[j]))]
    /\ UNCHANGED <<streamVars, rateVars, admitVars, fetchVars, manager, namespaces, ragCall,
                   passes, applied>>

\* the elements of a set of positions in increasing order
RECURSIVE InOrder(_)
InOrder(positions) ==
    IF positions = {} THEN <<>>
    ELSE LET least == CHOOSE j \in positions : \A k \in positions : j <= k
         IN  <<least>> \o InOrder(positions \ {least})

\* Promise.all resolves: results.push(...batchResults); i += maxConcurrent
WaveEnds ==
    /\ batch.pc = "await"
    /\ \A j \in batch.wave : batch.batchResults[j] # None
    /\ LET order == InOrder(batch.wave)
       IN  batch' = [batch EXCEPT
                        !.pc = "loop",
                        !.results = @ \o [k \in DOMAIN order |->
                                             batch.batchResults[order[k]][1]],
                        !.i = @ + batch.maxConcurrent]
    /\ UNCHANGED <<streamVars, rateVars, admitVars, fetchVars, manager, namespaces, ragCall,
                   passes, applied>>

\* the loop condition fails: return results
BatchReturns ==
    /\ batch.pc = "loop"
    /\ batch.i >= Len(batch.docs)
    /\ batch' = [batch EXCEPT !.pc = "done"]
    /\ UNCHANGED <<streamVars, rateVars, admitVars, fetchVars, manager, namespaces, ragCall,
                   passes, applied>>

BatchNext ==
    \/ StartWave
    \/ \E j \in 1..MaxBatchDocs : ModelSettles(j)
    \/ WaveEnds
    \/ BatchReturns

BatchStart ==
    \E n \in 0..MaxBatchDocs, maxConcurrent \in 1..MaxFanOut :
        \E responses \in [1..n -> BatchResponses] :
            batch = BatchCall(BatchDocs(n), responses, maxConcurrent)

(***************************************************************************)
(* src/lib/pinecone.ts, src/yt/rag.ts, src/lib/indexChecker.ts: the index  *)
(***************************************************************************)
VideoIds == {"dQw4w9WgXcQ", "9bZkp7q19f0"}

\* a transcript text, given by the pieces the text splitter (chunkSize 2000,
\* chunkOverlap 400) cuts it into
splitText(text) == text

\* a document of indexTranscript: the chunk and its metadata
Document(videoId, chunk, pageContent) ==
    [pageContent |-> pageContent, metadata |-> [videoId |-> videoId, chunk |-> chunk]]

\* one namespace for every video, the default one
DefaultNamespace(videoId) == ""

\* the namespace option indexTranscript and queryRag pass to the store
IndexNamespace(videoId) == videoId

\* the index after records were written to a namespace: a namespace comes into
\* being with its first record, and records written later are added to it
Upsert(index, namespace, records) ==
    IF records = <<>> THEN index
    ELSE IF namespace \in DOMAIN index
    THEN [index EXCEPT ![namespace] = @ \o records]
    ELSE index @@ (namespace :> records)

\* what the write of a pass does: it succeeds, or it fails after `stored` of the
\* records were written
UpsertOk == [kind |-> "ok"]
UpsertFails(stored) == [kind |-> "fails", stored |-> stored]

IndexError == [kind |-> "Error", message |-> "upsert failed"]

\* indexTranscript(videoId, text) on an index: the index afterwards and what the
\* call returns or throws
indexTranscript(index, videoId, text, upsert) ==
    LET chunks == splitText(text)
        docs == [i \in 1..Len(chunks) |-> Document(videoId, i - 1, chunks[i])]
        written == IF upsert.kind = "ok" THEN docs
                   ELSE SubSeq(docs, 1, Min(upsert.stored, Len(docs)))
    IN  [namespaces |-> Upsert(index, IndexNamespace(videoId), written),
         outcome |-> IF upsert.kind = "ok"
                     THEN [kind |-> "return", value |-> [chunks |-> Len(docs)]]
                     ELSE [kind |-> "throw", error |-> IndexError]]

\* what index.listNamespaces() does: it resolves with the list of the namespaces,
\* or without one when there are none, or rejects
ListOutcomes(index) ==
    {[kind |-> "list", namespaces |-> Some(DOMAIN index)],
     [kind |-> "throws"]}
        \cup IF DOMAIN index = {} THEN {[kind |-> "list", namespaces |-> None]} ELSE {}

\* isVideoIndexed(videoId), given what listNamespaces did
isVideoIndexed(videoId, list) ==
    IF list.kind = "throws" THEN [kind |-> "return", value |-> FALSE]
    ELSE [kind |-> "return",
          value |-> IF list.namespaces = None THEN FALSE
                    ELSE \E ns \in list.namespaces[1] : ns = videoId]

\* what index.describeNamespace(videoId) does: it resolves with the record count of
\* a namespace that exists, resolves without a count or rejects for one that does
\* not, or rejects because the call failed
DescribeOutcomes(index, videoId) ==
    IF videoId \in DOMAIN index
    THEN {[kind |-> "described", recordCount |-> Some(Len(index[videoId]))],
          [kind |-> "throws"]}
    ELSE {[kind |-> "described", recordCount |-> None], [kind |-> "throws"]}

\* a getNamespaceInfo whose catch block passes the error on
getNamespaceInfoUnguarded(videoId, describe) ==
    IF describe.kind = "throws"
    THEN [kind |-> "throw", error |-> [kind |-> "Error", message |-> "describe failed"]]
    ELSE LET recordCount == IF describe.recordCount = None THEN 0
                            ELSE describe.recordCount[1]
         IN  [kind |-> "return",
              value |-> [exists |-> recordCount > 0, videoId |-> videoId,
                         chunkCount |-> recordCount]]

\* getNamespaceInfo(videoId), given what describeNamespace did
getNamespaceInfo(videoId, describe) ==
    IF describe.kind = "throws"
    THEN [kind |-> "return",
          value |-> [exists |-> FALSE, videoId |-> videoId, chunkCount |-> 0]]
    ELSE LET recordCount == IF describe.recordCount = None THEN 0
                            ELSE describe.recordCount[1]
         IN  [kind |-> "return",
              value |-> [exists |-> recordCount > 0, videoId |-> videoId,
                         chunkCount |-> recordCount]]

\* the transcripts indexed in the runs of the index
IndexTranscripts == {<<ChorusPassage>>, <<VersePassage, ShortPassage>>}

\* records a failing write may leave behind
PartialWrites == 0..MaxPartial

\* the passes made so far
PassCount == Len(passes["dQw4w9WgXcQ"]) + Len(passes["9bZkp7q19f0"])

\* a call of indexTranscript: one pass over a video
IndexTranscript(videoId, text, upsert) ==
    /\ PassCount < MaxPasses
    /\ LET call == indexTranscript(namespaces, videoId, text, upsert)
       IN  /\ namespaces' = call.namespaces
           /\ ragCall' = Some([op |-> "indexTranscript", videoId |-> videoId,
                               before |-> namespaces, outcome |-> call.outcome])
           /\ passes' = [passes EXCEPT ![videoId] =
                            Append(@, [chunks |-> Len(splitText(text)),
                                       ok |-> upsert.kind = "ok"])]
    /\ UNCHANGED <<streamVars, rateVars, admitVars, fetchVars, manager, applied, batch>>

\* a call of isVideoIndexed
IsVideoIndexed(videoId, list) ==
    /\ ragCall' = Some([op |-> "isVideoIndexed", videoId |-> videoId,
                        before |-> namespaces, backing |-> list,
                        outcome |-> isVideoIndexed(videoId, list)])
    /\ UNCHANGED <<streamVars, rateVars, admitVars, fetchVars, manager, namespaces, passes,
                   applied, batch>>

\* a call of getNamespaceInfo
GetNamespaceInfo(videoId, describe) ==
    /\ ragCall' = Some([op |-> "getNamespaceInfo", videoId |-> videoId,
                        before |-> namespaces, backing |-> describe,
                        outcome |-> getNamespaceInfo(videoId, describe)])
    /\ UNCHANGED <<streamVars, rateVars, admitVars, fetchVars, manager, namespaces, passes,
                   applied, batch>>

\* the question of the modelled queries, and the similarity the index gives each
\* passage for it, in thousandths
Question == "what about the chorus lyrics"

SongPassage ==
    "What is this song about? It is about a promise that is kept. The chorus says so."
PlainPassage ==
    "A long sentence that has no keyword in it. The lyrics come in the second one."

Similarity ==
    (ChorusPassage :> 910) @@ (SongPassage :> 870) @@ (PlainPassage :> 640)
        @@ (VersePassage :> 550) @@ (ShortPassage :> 120)

\* a transcript of 25 chunks
LongTranscript ==
    [i \in 1..25 |->
        <<ChorusPassage, SongPassage, PlainPassage, VersePassage, ShortPassage>>[(i % 5) + 1]]

\* the default of queryRag's k, and the ceiling of what it retrieves for compression
defaultK == 4
maxRetrievalK == 10

\* const retrievalK = useCompression ? Math.min(k * 2, 10) : k
retrievalK(k, useCompression) == IF useCompression THEN Min(k * 2, maxRetrievalK) ELSE k

\* the topK records of a namespace that are nearest to the question, nearest first,
\* each with its similarity; a namespace that does not exist has none
TopMatches(index, namespace, topK) ==
    IF namespace \notin DOMAIN index THEN <<>>
    ELSE SliceTo(SortByScore([i \in DOMAIN index[namespace] |->
                                 [doc |-> index[namespace][i],
                                  score |-> Similarity[index[namespace][i].pageContent]]]),
                 topK)

SearchError == [kind |-> "Error", name |-> "Error", message |-> "index query failed"]

\* what store.similaritySearchWithScore(question, retrievalK) does: it resolves
\* with the matches or rejects
SearchOutcomes(index, namespace, topK) ==
    {[kind |-> "matches", matches |-> TopMatches(index, namespace, topK)],
     [kind |-> "throws"]}

\* (score * 100).toFixed(1), of a score in thousandths
Relevance(score) == ToString(score \div 10) \o "." \o ToString(score % 10) \o "%"

\* the excerpts of the context; the documents carry no startTime, so the timestamp
\* is empty
Excerpts(processedResults) ==
    [index \in DOMAIN processedResults |->
        "Excerpt #" \o ToString(index) \o " " \o "" \o " (relevance: "
            \o Relevance(processedResults[index].score) \o "):\n"
            \o processedResults[index].doc.pageContent \o "\n"]

\* every compressed result pairs with the score of the first match
ScoreOfFirst(resultsWithScores, i) == resultsWithScores[1].score

\* const [_, score] = resultsWithScores[i]
ScoreAt(resultsWithScores, i) == resultsWithScores[i].score

\* all results, however many
KeepAll(results, k) == results

\* .slice(0, k)
TakeTopK(results, k) == SliceTo(results, k)

\* queryRag(videoId, question, k, useCompression), given what the search did
queryRag(videoId, question, k, useCompression, search) ==
    IF search.kind = "throws" THEN [kind |-> "throw", error |-> SearchError]
    ELSE LET resultsWithScores == search.matches
             docs == [i \in DOMAIN resultsWithScores |->
                         resultsWithScores[i].doc.pageContent]
             compressed == quickCompress(docs, question, 3)
             rebuilt == [i \in DOMAIN compressed |->
                            [doc |-> [pageContent |-> compressed[i].compressed,
                                      metadata |-> resultsWithScores[i].doc.metadata],
                             score |-> ScoreAt(resultsWithScores, i)]]
             processedResults ==
                 IF useCompression /\ Len(resultsWithScores) > 0
                 THEN TakeTopK(SelectSeq(rebuilt,
                                  LAMBDA r : Len(Trim(r.doc.pageContent)) > 0), k)
                 ELSE resultsWithScores
         IN  [kind |-> "return",
              value |-> [context |-> JoinWith(Excerpts(processedResults), "\n---\n"),
                         results |-> processedResults,
                         compressionUsed |-> useCompression]]

\* the transcripts indexed and the result counts asked for in the runs of queries
QueryTranscripts == {<<ChorusPassage>>, <<VersePassage, ShortPassage, SongPassage>>,
                     LongTranscript}

Ks == {1, defaultK, MaxK, 2 * MaxK}

\* a call of queryRag
QueryRag(videoId, k, useCompression, search) ==
    /\ ragCall' = Some([op |-> "queryRag", videoId |-> videoId, k |-> k,
                        useCompression |-> useCompression,
                        before |-> namespaces, backing |-> search,
                        outcome |-> queryRag(videoId, Question, k, useCompression,
                                             search)])
    /\ UNCHANGED <<streamVars, rateVars, admitVars, fetchVars, manager, namespaces, passes,
                   applied, batch>>

\* a first indexing pass over a video, or a query
QueryNext ==
    \E videoId \in VideoIds :
        \/ \E text \in QueryTranscripts :
               /\ videoId \notin DOMAIN namespaces
               /\ IndexTranscript(videoId, text, UpsertOk)
        \/ \E k \in Ks, useCompression \in BOOLEAN :
               \E search \in SearchOutcomes(namespaces, IndexNamespace(videoId),
                                            retrievalK(k, useCompression)) :
                   QueryRag(videoId, k, useCompression, search)

IndexNext ==
    \E videoId \in VideoIds :
        \/ \E text \in IndexTranscripts :
               \E upsert \in {UpsertOk} \cup {UpsertFails(n) : n \in PartialWrites} :
                   IndexTranscript(videoId, text, upsert)
        \/ \E list \in ListOutcomes(namespaces) : IsVideoIndexed(videoId, list)
        \/ \E describe \in DescribeOutcomes(namespaces, videoId) :
               GetNamespaceInfo(videoId, describe)

\* no index is in use
IndexIdle == namespaces = None /\ ragCall = None /\ passes = None

\* none of the tools' functions is in use
ToolsIdle == IndexIdle /\ PureIdle /\ BatchIdle /\ ManagerIdle

\* an index without namespaces, and none of the videos indexed yet
EmptyIndex == [ns \in {} |-> <<>>]

IndexStart ==
    /\ namespaces = EmptyIndex
    /\ ragCall = None
    /\ passes = [v \in VideoIds |-> <<>>]

(***************************************************************************)
(* src/yt/agent.ts: the index_content tool                                 *)
(***************************************************************************)
\* what retryWithBackoff settles with inside fetchTranscript
SettledLoads ==
    {[kind |-> "return", value |-> o] : o \in {x \in SourceOutcomes : x.kind = "docs"}}
        \cup {[kind |-> "throw", error |-> Some(AsError(o))] :
                  o \in {x \in SourceOutcomes : x.kind # "docs"}}

\* the arguments the Model gives the tool
ToolInputs == {"  ", "not a video", "dQw4w9WgXcQ", "https://youtu.be/9bZkp7q19f0"}

\* fetchTranscript(videoUrlOrId) from its first statement, given what the load
\* settles with: the two checks of the argument, then the load and its result
fetchTranscriptFor(videoUrlOrId, load) ==
    IF Trim(videoUrlOrId) = ""
    THEN [kind |-> "throw", loaded |-> FALSE,
          error |-> [kind |-> "Error", message |-> "Video URL or ID is required"]]
    ELSE IF extractVideoId(videoUrlOrId) = None
    THEN [kind |-> "throw", loaded |-> FALSE,
          error |-> [kind |-> "Error",
                     message |-> "Invalid YouTube URL or video ID: " \o videoUrlOrId]]
    ELSE fetchTranscript(extractVideoId(videoUrlOrId)[1], load) @@ [loaded |-> TRUE]

\* the pieces the splitter cuts a text shorter than its chunk size into
TextPieces(text) == IF text = "" THEN <<>> ELSE <<text>>

SuccessText(id, chunks) ==
    "Successfully indexed video " \o id \o " into " \o ToString(chunks)
        \o " chunks. Ready for querying."

\* a tool that reports success whatever the write did
AlwaysReturns(written) == [kind |-> "return", value |-> [chunks |-> 0]]

\* await indexTranscript(...): the tool goes on with what the call returned or threw
Awaited(written) == written

\* the Model calls index_content: the tool starts fetchTranscript
CallIndexContent(videoUrlOrId) ==
    /\ IF ragCall = None THEN TRUE ELSE ragCall[1].pc \in {"returned", "thrown"}
    /\ (IF ragCall = None THEN 0 ELSE ragCall[1].n) < MaxToolCalls
    /\ ragCall' = Some([op |-> "index_content", pc |-> "fetching",
                        n |-> (IF ragCall = None THEN 0 ELSE ragCall[1].n) + 1,
                        videoUrlOrId |-> videoUrlOrId, before |-> namespaces,
                        transcript |-> None, upserts |-> <<>>, output |-> None])
    /\ UNCHANGED <<streamVars, rateVars, admitVars, fetchVars, manager, namespaces,
                   passes, applied, batch>>

\* fetchTranscript settles: the tool throws, or goes on to indexTranscript
FetchSettles(load) ==
    /\ ragCall # None
    /\ ragCall[1].pc = "fetching"
    /\ LET transcript == fetchTranscriptFor(ragCall[1].videoUrlOrId, load)
       IN  ragCall' =
               Some(IF transcript.kind = "throw"
                    THEN [ragCall[1] EXCEPT !.pc = "thrown",
                                            !.transcript = Some(transcript),
                                            !.output = Some(transcript)]
                    ELSE IF transcript.id = ""
                    THEN [ragCall[1] EXCEPT
                             !.pc = "thrown",
                             !.transcript = Some(transcript),
                             !.output = Some([kind |-> "throw",
                                              error |-> [kind |-> "Error",
                                                         message |-> "Failed to extract video ID"]])]
                    ELSE [ragCall[1] EXCEPT !.pc = "indexing",
                                            !.transcript = Some(transcript)])
    /\ UNCHANGED <<streamVars, rateVars, admitVars, fetchVars, manager, namespaces,
                   passes, applied, batch>>

\* indexTranscript(transcriptResult.id, transcriptResult.text) settles: the tool
\* returns its success text, or throws what the call threw
IndexSettles(upsert) ==
    /\ ragCall # None
    /\ ragCall[1].pc = "indexing"
    /\ LET transcript == ragCall[1].transcript[1]
           written == indexTranscript(namespaces, transcript.id,
                                      TextPieces(transcript.text), upsert)
           awaited == Awaited(written.outcome)
       IN  /\ namespaces' = written.namespaces
           /\ ragCall' =
                  Some([ragCall[1] EXCEPT
                           !.pc = IF awaited.kind = "return" THEN "returned" ELSE "thrown",
                           !.upserts = Append(@, [namespace |-> IndexNamespace(transcript.id),
                                                  upsert |-> upsert]),
                           !.output = Some(IF awaited.kind = "return"
                                           THEN [kind |-> "return",
                                                 text |-> SuccessText(transcript.id,
                                                                      awaited.value.chunks)]
                                           ELSE awaited)])
    /\ UNCHANGED <<streamVars, rateVars, admitVars, fetchVars, manager, passes,
                   applied, batch>>

ToolNext ==
    \/ \E videoUrlOrId \in ToolInputs : CallIndexContent(videoUrlOrId)
    \/ \E load \in SettledLoads : FetchSettles(load)
    \/ \E upsert \in {UpsertOk} \cup {UpsertFails(stored) : stored \in PartialWrites} :
           IndexSettles(upsert)

(***************************************************************************)
(* pages/api/ask.ts: the stream serializer                                 *)
(***************************************************************************)
TokenEvent(content) == [type |-> "token", content |-> content]
ToolStartEvent(tool, args) == [type |-> "tool_start", tool |-> tool, args |-> args]
ToolEndEvent(tool, result) == [type |-> "tool_end", tool |-> tool, result |-> result]
DoneEvent == [type |-> "done"]
ErrorEvent(message) == [type |-> "error", message |-> message]

RECURSIVE Join(_)
Join(parts) == IF parts = <<>> THEN "" ELSE Head(parts) \o Join(Tail(parts))

\* the text of a message content: the string itself, or the joined parts of an array
ContentText(content) == Join(content.parts)

\* JavaScript truthiness of a content: every array is truthy, a string when non-empty
Truthy(content) == content.kind = "array" \/ content.parts[1] # ""

RECURSIVE JSONEscape(_)
JSONEscape(str) ==
    IF str = "" THEN ""
    ELSE LET c == SubSeq(str, 1, 1)
         IN  (IF c \in {"\"", "\\"} THEN "\\" \o c ELSE c)
                 \o JSONEscape(SubSeq(str, 2, Len(str)))

JSONString(str) == "\"" \o JSONEscape(str) \o "\""

RECURSIVE JSONParts(_)
JSONParts(parts) ==
    IF parts = <<>> THEN ""
    ELSE JSONString(Head(parts)) \o (IF Len(parts) > 1 THEN "," ELSE "") \o JSONParts(Tail(parts))

\* JSON.stringify(lastMessage.content || "")
JSONstringify(content) ==
    IF content.kind = "string" THEN JSONString(content.parts[1])
    ELSE "[" \o JSONParts(content.parts) \o "]"

messageKey(lastMessage) == lastMessage.type \o "-" \o JSONstringify(lastMessage.content)

\* dedup variables declared at module level: every invocation uses the same ones
SharedFrame(r) == 1

\* the dedup locals belong to one invocation of handler: request r uses frame r
Frame(r) == r

Locals(r) ==
    [messageBuffer |-> messageBuffer[Frame(r)],
     lastToolName  |-> lastToolName[Frame(r)],
     sentMessages  |-> sentMessages[Frame(r)],
     out           |-> <<>>]

InitialLocals ==
    [messageBuffer |-> "", lastToolName |-> "", sentMessages |-> {}, out |-> <<>>]

\* the answer branch without its "no tool calls" condition
IsAnswerWithContent(lastMessage) ==
    /\ lastMessage.type = "ai"
    /\ Truthy(lastMessage.content)

IsFinalAnswer(lastMessage) ==
    /\ lastMessage.type = "ai"
    /\ Truthy(lastMessage.content)
    /\ Len(lastMessage.tool_calls) = 0

IsToolCall(lastMessage) ==
    /\ lastMessage.type = "ai"
    /\ Len(lastMessage.tool_calls) > 0

IsToolResult(lastMessage) == lastMessage.type = "tool"

\* "Handle AI messages with content (final answer)"
HandleAnswer(L, lastMessage) ==
    IF IsFinalAnswer(lastMessage)
    THEN LET content == ContentText(lastMessage.content)
         IN  IF /\ content # ""
                /\ content # L.messageBuffer
                /\ messageKey(lastMessage) \notin L.sentMessages
             THEN [L EXCEPT !.messageBuffer = content,
                            !.sentMessages = @ \cup {messageKey(lastMessage)},
                            !.out = Append(@, TokenEvent(sanitizeHTML(content)))]
             ELSE L
    ELSE L

\* tool_start deduplicated through the set of sent keys instead of the last name
IsUnsentToolCall(L, toolCall) == ("tool-" \o toolCall.name) \notin L.sentMessages

\* a tool_start for every tool-call snapshot
IsAnyToolCall(L, toolCall) == TRUE

\* whether a tool call starts a new tool_start event
IsNewToolCall(L, toolCall) == toolCall.name # L.lastToolName

\* "Handle tool calls"
HandleToolCall(L, lastMessage) ==
    IF IsToolCall(lastMessage)
    THEN LET toolCall == lastMessage.tool_calls[1]
         IN  IF IsNewToolCall(L, toolCall)
             THEN [L EXCEPT !.lastToolName = toolCall.name,
                            !.out = Append(@, ToolStartEvent(sanitizeHTML(toolCall.name),
                                                             sanitizeToolArgs(toolCall.args)))]
             ELSE L
    ELSE L

toolKey(lastMessage) == "tool-" \o TemplateStr(lastMessage.name)

\* tool_end deduplicated by the message key (type and content) instead of the name
IsUnsentToolContent(L, lastMessage) == messageKey(lastMessage) \notin L.sentMessages

\* whether a tool result still gets its tool_end event
IsNewToolResult(L, lastMessage) == toolKey(lastMessage) \notin L.sentMessages

\* lastMessage.name || ""
NameOrEmpty(name) == IF name = None THEN "" ELSE name[1]

\* "Handle tool results"
HandleToolResult(L, lastMessage) ==
    IF IsToolResult(lastMessage)
    THEN IF IsNewToolResult(L, lastMessage)
         THEN LET resultContent ==
                      IF lastMessage.content.kind = "string"
                      THEN truncate(sanitizeHTML(lastMessage.content.parts[1]),
                                    truncateMaxLength)
                      ELSE "Result received"
              IN  [L EXCEPT !.sentMessages = @ \cup {toolKey(lastMessage)},
                            !.out = Append(@, ToolEndEvent(
                                        sanitizeHTML(NameOrEmpty(lastMessage.name)),
                                        resultContent))]
         ELSE L
    ELSE L

\* one iteration of the for-await loop over a chunk whose last message is given
ProcessChunk(L, lastMessage) ==
    IF lastMessage.type = "none" THEN L
    ELSE HandleToolResult(HandleToolCall(HandleAnswer(L, lastMessage), lastMessage),
                          lastMessage)

(***************************************************************************)
(* pages/api/ask.ts: handler                                               *)
(***************************************************************************)
ValidationError(message) == [kind |-> "ValidationError", message |-> message]

\* a validation without the check of the question's length
ValidateWithoutLength(url, question) ==
    IF url = None \/ Trim(url[1]) = ""
    THEN Some(ValidationError("URL parameter is required and cannot be empty"))
    ELSE IF question = None \/ Trim(question[1]) = ""
    THEN Some(ValidationError("Question parameter is required and cannot be empty"))
    ELSE IF ~Includes(url[1], "youtube.com") /\ ~Includes(url[1], "youtu.be")
    THEN Some(ValidationError(
             "Invalid YouTube URL. Please provide a valid youtube.com or youtu.be URL"))
    ELSE None

\* "2. Validate request body": the first check that fails, or None
Validate(url, question) ==
    IF url = None \/ Trim(url[1]) = ""
    THEN Some(ValidationError("URL parameter is required and cannot be empty"))
    ELSE IF question = None \/ Trim(question[1]) = ""
    THEN Some(ValidationError("Question parameter is required and cannot be empty"))
    ELSE IF ~Includes(url[1], "youtube.com") /\ ~Includes(url[1], "youtu.be")
    THEN Some(ValidationError(
             "Invalid YouTube URL. Please provide a valid youtube.com or youtu.be URL"))
    ELSE IF Len(question[1]) > MaxQuestionLength
    THEN Some(ValidationError("Question is too long. Maximum 500 characters allowed"))
    ELSE None

\* a catch block that ends the response without writing the error record
CatchBlockSilent(written, error) == written

\* the catch block: one error record, then res.end()
CatchBlock(written, error) == Append(written, ErrorEvent(sanitizeErrorMessage(error)))

\* "7. Send completion signal", then res.end()
Complete(written) == Append(written, DoneEvent)

Catch(r, origin, error) ==
    /\ pc' = [pc EXCEPT ![r] = "error"]
    /\ events' = [events EXCEPT ![r] = CatchBlock(@, error)]
    /\ thrown' = [thrown EXCEPT ![r] = Some([origin |-> origin, error |-> error])]

\* a request reaches handler: method check and body validation
Enter(r, method, url, question) ==
    /\ r \in reqs
    /\ pc[r] = "idle"
    /\ body' = [body EXCEPT ![r] = Some([method |-> method, url |-> url,
                                         question |-> question])]
    /\ IF method # "POST"
       THEN /\ pc' = [pc EXCEPT ![r] = "rejected"]
            /\ statusCode' = [statusCode EXCEPT ![r] = 405]
            /\ UNCHANGED <<events, thrown>>
       ELSE IF Validate(url, question) # None
       THEN /\ Catch(r, "validation", Validate(url, question)[1])
            /\ UNCHANGED statusCode
       ELSE /\ pc' = [pc EXCEPT ![r] = "setup"]
            /\ UNCHANGED <<statusCode, events, thrown>>
    /\ UNCHANGED <<reqs, messageBuffer, lastToolName, sentMessages, toolCalls,
                   snapshots, toolRun>>
    /\ UNCHANGED <<rateVars, admitVars, fetchVars, toolVars>>

\* "5. Stream agent execution": agent.stream() resolves, the locals are declared
StreamSetup(r) ==
    /\ pc[r] = "setup"
    /\ pc' = [pc EXCEPT ![r] = "streaming"]
    /\ messageBuffer' = [messageBuffer EXCEPT ![Frame(r)] = InitialLocals.messageBuffer]
    /\ lastToolName' = [lastToolName EXCEPT ![Frame(r)] = InitialLocals.lastToolName]
    /\ sentMessages' = [sentMessages EXCEPT ![Frame(r)] = InitialLocals.sentMessages]
    /\ UNCHANGED <<reqs, body, statusCode, events, toolCalls, snapshots, thrown, toolRun>>
    /\ UNCHANGED <<rateVars, admitVars, fetchVars, toolVars>>

\* agent.stream() rejects
StreamSetupFails(r, error) ==
    /\ pc[r] = "setup"
    /\ Catch(r, "setup", error)
    /\ UNCHANGED <<reqs, body, statusCode, messageBuffer, lastToolName, sentMessages,
                   toolCalls, snapshots, toolRun>>
    /\ UNCHANGED <<rateVars, admitVars, fetchVars, toolVars>>

RECURSIVE TotalLen(_, _)
TotalLen(f, S) ==
    IF S = {} THEN 0
    ELSE LET x == CHOOSE y \in S : TRUE IN Len(f[x]) + TotalLen(f, S \ {x})

\* the bound on the chunks the model lets the stream deliver: request 1 alone
\* receives chunks of any kind in any order, request 2 alone receives the chunks
\* of an agent run, turn by turn
MayDeliver(r) ==
    IF reqs = {1} THEN Len(snapshots[r]) < MaxSnapshots
    ELSE IF reqs = {2} THEN Len(snapshots[r]) < MaxTurns
    ELSE TotalLen(snapshots, reqs) < MaxConcSnapshots

\* the loop body runs on one chunk
Consume(r, lastMessage) ==
    LET L == ProcessChunk(Locals(r), lastMessage)
    IN  /\ messageBuffer' = [messageBuffer EXCEPT ![Frame(r)] = L.messageBuffer]
        /\ lastToolName' = [lastToolName EXCEPT ![Frame(r)] = L.lastToolName]
        /\ sentMessages' = [sentMessages EXCEPT ![Frame(r)] = L.sentMessages]
        /\ events' = [events EXCEPT ![r] = @ \o L.out]
        /\ snapshots' = [snapshots EXCEPT ![r] = Append(@, lastMessage)]

\* the stream yields the state after a Model call
ModelSnapshot(r, message) ==
    /\ pc[r] = "streaming"
    /\ MayDeliver(r)
    /\ Consume(r, message)
    /\ toolCalls' = [toolCalls EXCEPT ![r] = message.tool_calls]
    /\ UNCHANGED <<reqs, body, pc, statusCode, thrown, toolRun>>
    /\ UNCHANGED <<rateVars, admitVars, fetchVars, toolVars>>

RemoveAt(seq, i) == SubSeq(seq, 1, i - 1) \o SubSeq(seq, i + 1, Len(seq))

\* the agent runs one tool call of the latest Model output through the middleware
\* and the stream yields the state with the tool's message appended
ToolSnapshot(r, i, outcome) ==
    /\ pc[r] = "streaming"
    /\ MayDeliver(r)
    /\ i \in DOMAIN toolCalls[r]
    /\ LET toolCall == toolCalls[r][i]
           result == wrapToolCall(toolCall, outcome)
       IN  /\ toolRun' = [toolRun EXCEPT ![r] =
                             Some([toolCall |-> toolCall, outcome |-> outcome,
                                   result |-> result])]
           /\ toolCalls' = [toolCalls EXCEPT ![r] = RemoveAt(@, i)]
           /\ IF result.kind = "return"
              THEN /\ Consume(r, result.message)
                   /\ UNCHANGED <<pc, thrown>>
              ELSE /\ Catch(r, "tool", result.error)
                   /\ UNCHANGED <<messageBuffer, lastToolName, sentMessages, snapshots>>
    /\ UNCHANGED <<reqs, body, statusCode>>
    /\ UNCHANGED <<rateVars, admitVars, fetchVars, toolVars>>

\* the stream yields a state whose last message is the user's turn, or no message
InputSnapshot(r, message) ==
    /\ pc[r] = "streaming"
    /\ MayDeliver(r)
    /\ Consume(r, message)
    /\ UNCHANGED <<reqs, body, pc, statusCode, toolCalls, thrown, toolRun>>
    /\ UNCHANGED <<rateVars, admitVars, fetchVars, toolVars>>

\* the stream throws: the Model call failed
StreamThrows(r, error) ==
    /\ pc[r] = "streaming"
    /\ Catch(r, "model", error)
    /\ UNCHANGED <<reqs, body, statusCode, messageBuffer, lastToolName, sentMessages,
                   toolCalls, snapshots, toolRun>>
    /\ UNCHANGED <<rateVars, admitVars, fetchVars, toolVars>>

\* the stream is exhausted
StreamEnds(r) ==
    /\ pc[r] = "streaming"
    /\ pc' = [pc EXCEPT ![r] = "done"]
    /\ events' = [events EXCEPT ![r] = Complete(@)]
    /\ UNCHANGED <<reqs, body, statusCode, messageBuffer, lastToolName, sentMessages,
                   toolCalls, snapshots, thrown, toolRun>>
    /\ UNCHANGED <<rateVars, admitVars, fetchVars, toolVars>>

InputMessages == {HumanMessage(StringContent("URL: https://youtu.be/dQw4w9WgXcQ")), NoMessage}

StreamInit(arriving) ==
    /\ reqs = arriving
    /\ pc = [r \in Requests |-> "idle"]
    /\ statusCode = [r \in Requests |-> 200]
    /\ events = [r \in Requests |-> <<>>]
    /\ messageBuffer = [r \in Requests |-> ""]
    /\ lastToolName = [r \in Requests |-> ""]
    /\ sentMessages = [r \in Requests |-> {}]
    /\ toolCalls = [r \in Requests |-> <<>>]
    /\ snapshots = [r \in Requests |-> <<>>]
    /\ thrown = [r \in Requests |-> None]
    /\ toolRun = [r \in Requests |-> None]
    /\ body = [r \in Requests |-> None]

RateIdle ==
    /\ store = [identifier \in Identifiers |-> None]
    /\ now = 0
    /\ lastDecision = None
    /\ claimed = [window |-> [identifier \in Identifiers |-> None], decision |-> None]
    /\ unswept = [identifier \in Identifiers |-> None]

StreamNext ==
    \E r \in Requests :
        \/ \E method \in Methods, url \in Urls, question \in Questions :
               Enter(r, method, url, question)
        \/ StreamSetup(r)
        \/ \E error \in StreamErrors : StreamSetupFails(r, error)
        \/ \E message \in ModelOutputs : ModelSnapshot(r, message)
        \/ \E i \in 1..2, outcome \in ToolOutcomes : ToolSnapshot(r, i, outcome)
        \/ \E message \in InputMessages : InputSnapshot(r, message)
        \/ \E error \in StreamErrors : StreamThrows(r, error)
        \/ StreamEnds(r)

\* one request, alone
Init == StreamInit({1}) /\ RateIdle /\ AdmitIdle /\ FetchIdle /\ ToolsIdle
Next == StreamNext
Spec == Init /\ [][Next]_vars

\* two requests whose handler invocations interleave, on fewer inputs
ConcModelOutputs ==
    {AIMessage(StringContent("The video"), <<>>),
     AIMessage(StringContent(""), <<IndexCall("call_1")>>),
     AIMessage(StringContent(""), <<QueryCall("call_1")>>)}

ConcToolOutcomes == {o \in ToolOutcomes : o.kind \in {"ok", "IndexingError"}}

ConcNext ==
    \E r \in Requests :
        \/ \E method \in Methods, url \in Urls, question \in Questions :
               Enter(r, method, url, question)
        \/ StreamSetup(r)
        \/ \E error \in StreamErrors : StreamSetupFails(r, error)
        \/ \E message \in ConcModelOutputs : ModelSnapshot(r, message)
        \/ \E outcome \in ConcToolOutcomes : ToolSnapshot(r, 1, outcome)
        \/ InputSnapshot(r, NoMessage)
        \/ \E error \in StreamErrors : StreamThrows(r, error)
        \/ StreamEnds(r)

ConcInit == StreamInit({1, 2}) /\ RateIdle /\ AdmitIdle /\ FetchIdle /\ ToolsIdle
ConcSpec == ConcInit /\ [][ConcNext]_vars

\* the limiter alone: no request reaches the handler
RateInit == StreamInit({}) /\ RateIdle /\ AdmitIdle /\ FetchIdle /\ ToolsIdle
RateSpec == RateInit /\ [][RateNext]_vars

\* requests through the withRateLimit wrapper, in either deployment
AdmitInit == StreamInit({}) /\ RateIdle /\ AdmitStart /\ FetchIdle /\ ToolsIdle
AdmitSpec == AdmitInit /\ [][AdmitNext]_vars

\* one client's requests, with the admissions counted per instant
SlideInit == StreamInit({}) /\ RateIdle /\ AdmitIdle /\ FetchIdle /\ ToolsIdle
SlideSpec == SlideInit /\ [][SlideNext]_vars

\* transcript fetches; every await of the loop settles (an invocation of the source
\* returns or throws, a timer fires)
FetchInit == StreamInit({}) /\ RateIdle /\ AdmitIdle /\ FetchStart /\ ToolsIdle
FetchSpec == FetchInit /\ [][FetchNext]_vars /\ WF_vars(FetchNext)

\* getClientIdentifier alone, in either deployment
IdentInit == StreamInit({}) /\ RateIdle /\ AdmitStart /\ FetchIdle /\ ToolsIdle
IdentSpec == IdentInit /\ [][IdentNext]_vars

\* one request whose stream is an agent run: the user's turn, then Model outputs
\* that carry one tool call each, every one followed by that call's result, until
\* an output without a tool call, after which the stream ends
CallId(r) == "call_" \o ToString(Len(snapshots[r]))

TurnOutputs(r) ==
    {AIMessage(StringContent(""), <<IndexCall(CallId(r))>>),
     AIMessage(StringContent(""), <<QueryCall(CallId(r))>>),
     AIMessage(StringContent("The video"), <<>>)}

TurnOutcomes ==
    {[kind |-> "ok", message |-> "Successfully indexed video dQw4w9WgXcQ into 25 chunks."],
     [kind |-> "Error", message |-> "upsert failed"]}

Answered(r) ==
    /\ snapshots[r] # <<>>
    /\ snapshots[r][Len(snapshots[r])].type = "ai"
    /\ toolCalls[r] = <<>>

TurnNext ==
    \E r \in Requests :
        \/ Enter(r, "POST", Some("https://youtu.be/dQw4w9WgXcQ"), Some("What is it about?"))
        \/ StreamSetup(r)
        \/ /\ snapshots[r] = <<>>
           /\ InputSnapshot(r, HumanMessage(StringContent("URL: https://youtu.be/dQw4w9WgXcQ")))
        \/ /\ snapshots[r] # <<>>
           /\ toolCalls[r] = <<>>
           /\ ~Answered(r)
           /\ \E message \in TurnOutputs(r) : ModelSnapshot(r, message)
        \/ \E outcome \in TurnOutcomes : ToolSnapshot(r, 1, outcome)
        \/ /\ Answered(r)
           /\ StreamEnds(r)

TurnInit == StreamInit({2}) /\ RateIdle /\ AdmitIdle /\ FetchIdle /\ ToolsIdle
TurnSpec == TurnInit /\ [][TurnNext]_vars

\* the wrapped handler: requests of one client pass the wrapper statement by
\* statement and, when admitted, the handler's method check and validation
WrapNext ==
    \/ \E r \in Requests : SetHeaders(r)
    \/ Decide
    \/ \E r \in Requests, method \in Methods, url \in Urls, question \in Questions :
           Enter(r, method, url, question)
    \/ \E t \in WrapTimes :
           /\ InWrapper => t - now <= MaxLag
           /\ Tick(t)

WrapInit ==
    /\ StreamInit({})
    /\ \E window \in WrapWindows :
           /\ store = [identifier \in Identifiers |->
                          IF identifier = "10.0.0.1" THEN window ELSE None]
           /\ unswept = store
           /\ claimed = [window |-> store, decision |-> None]
    /\ now = 0
    /\ lastDecision = None
    /\ AdmitIdle /\ FetchIdle /\ ToolsIdle
WrapSpec == WrapInit /\ [][WrapNext]_vars

\* the index: indexing passes and occupancy checks
IndexInit ==
    StreamInit({}) /\ RateIdle /\ AdmitIdle /\ FetchIdle /\ IndexStart /\ PureIdle
        /\ BatchIdle /\ ManagerIdle
IndexSpec == IndexInit /\ [][IndexNext]_vars

\* the index_content tool, called by the Model
ToolSpec == IndexInit /\ [][ToolNext]_vars

\* the index: a first indexing pass per video, and queries
QuerySpec == IndexInit /\ [][QueryNext]_vars

\* quickCompress applied to one document
QuickInit ==
    StreamInit({}) /\ RateIdle /\ AdmitIdle /\ FetchIdle /\ IndexIdle /\ QuickStart
        /\ BatchIdle /\ ManagerIdle
QuickSpec == QuickInit /\ [][QuickNext]_vars

\* compressDocument applied to one document
CompressInit ==
    StreamInit({}) /\ RateIdle /\ AdmitIdle /\ FetchIdle /\ IndexIdle /\ CompressStart
        /\ BatchIdle /\ ManagerIdle
CompressSpec == CompressInit /\ [][CompressNext]_vars

\* the agent manager
ManagerInit ==
    StreamInit({}) /\ RateIdle /\ AdmitIdle /\ FetchIdle /\ IndexIdle /\ PureIdle
        /\ BatchIdle /\ ManagerStart
ManagerSpec == ManagerInit /\ [][ManagerNext]_vars

\* extractVideoId applied to one input
ExtractInit ==
    StreamInit({}) /\ RateIdle /\ AdmitIdle /\ FetchIdle /\ IndexIdle /\ ExtractStart
        /\ BatchIdle /\ ManagerIdle
ExtractSpec == ExtractInit /\ [][ExtractNext]_vars

\* one compressDocuments call
BatchInit ==
    StreamInit({}) /\ RateIdle /\ AdmitIdle /\ FetchIdle /\ IndexIdle /\ PureIdle
        /\ BatchStart /\ ManagerIdle
BatchSpec == BatchInit /\ [][BatchNext]_vars

(***************************************************************************)
(* Properties of the event stream                                          *)
(***************************************************************************)
TerminalTypes == {"done", "error"}

Last(seq) == seq[Len(seq)]

\* the tool fields of the events of one type, in emission order
RECURSIVE ToolsOf(_, _)
ToolsOf(evs, type) ==
    IF evs = <<>> THEN <<>>
    ELSE (IF Head(evs).type = type THEN <<Head(evs).tool>> ELSE <<>>)
             \o ToolsOf(Tail(evs), type)

\* the contents of the token events, concatenated in emission order
RECURSIVE TokenText(_)
TokenText(evs) ==
    IF evs = <<>> THEN ""
    ELSE (IF Head(evs).type = "token" THEN Head(evs).content ELSE "")
             \o TokenText(Tail(evs))

\* the events a request wrote before its terminal one
StreamEvents(evs) == SelectSeq(evs, LAMBDA e : e.type \notin TerminalTypes)

\* the name of the first tool call of every tool-call snapshot, in order
RECURSIVE FirstCallNames(_)
FirstCallNames(snaps) ==
    IF snaps = <<>> THEN <<>>
    ELSE (IF IsToolCall(Head(snaps)) THEN <<Head(snaps).tool_calls[1].name>> ELSE <<>>)
             \o FirstCallNames(Tail(snaps))

\* the name (or "") of every tool-result snapshot, in order
RECURSIVE ToolResultNames(_)
ToolResultNames(snaps) ==
    IF snaps = <<>> THEN <<>>
    ELSE (IF Head(snaps).type = "tool" THEN <<NameOrEmpty(Head(snaps).name)>> ELSE <<>>)
             \o ToolResultNames(Tail(snaps))

\* seq without the elements equal to their predecessor
RECURSIVE RunHeads(_)
RunHeads(seq) ==
    IF Len(seq) <= 1 THEN seq
    ELSE LET rest == RunHeads(SubSeq(seq, 1, Len(seq) - 1))
         IN  IF seq[Len(seq)] = seq[Len(seq) - 1] THEN rest ELSE Append(rest, seq[Len(seq)])

\* seq without the elements that occurred before
RECURSIVE FirstOccurrences(_)
FirstOccurrences(seq) ==
    IF seq = <<>> THEN <<>>
    ELSE LET rest == FirstOccurrences(SubSeq(seq, 1, Len(seq) - 1))
         IN  IF \E i \in 1..(Len(seq) - 1) : seq[i] = seq[Len(seq)]
             THEN rest ELSE Append(rest, seq[Len(seq)])

Sanitized(seq) == [i \in DOMAIN seq |-> sanitizeHTML(seq[i])]

\* the text of the last final-answer snapshot: the answer the agent settled on
RECURSIVE FinalAnswer(_)
FinalAnswer(snaps) ==
    IF snaps = <<>> THEN ""
    ELSE IF IsFinalAnswer(Last(snaps)) THEN ContentText(Last(snaps).content)
    ELSE FinalAnswer(SubSeq(snaps, 1, Len(snaps) - 1))

\* the serializer run on a sequence of snapshots from fresh locals
RECURSIVE Replay(_)
Replay(snaps) ==
    IF snaps = <<>> THEN InitialLocals
    ELSE ProcessChunk(Replay(SubSeq(snaps, 1, Len(snaps) - 1)), Last(snaps))

\* C1: a POST request's event sequence ends with exactly one terminal event, done
\* when nothing threw and error when validation, stream setup or the stream threw;
\* done and error never both occur and no event follows the terminal one.
C1_ExactlyOneTerminalEvent ==
    \A r \in Requests :
        LET terminals == {i \in DOMAIN events[r] : events[r][i].type \in TerminalTypes}
        IN  /\ pc[r] \in {"done", "error"} =>
                /\ terminals = {Len(events[r])}
                /\ Last(events[r]).type = (IF thrown[r] = None THEN "done" ELSE "error")
            /\ pc[r] \notin {"done", "error"} => terminals = {}
            /\ thrown[r] # None => pc[r] = "error"

\* a Model failure part-way: tool_start and tool_end were written, then error
C1_Witness ==
    /\ pc[1] = "error"
    /\ thrown[1] # None
    /\ thrown[1][1].origin = "model"
    /\ Len(events[1]) = 3
    /\ events[1][1].type = "tool_start"
    /\ events[1][2].type = "tool_end"
    /\ events[1][3].type = "error"

\* C2 (as claimed): when a request is done, the token contents concatenated in
\* emission order are the (escaped) final answer text, exactly once.
C2_TokensReproduceAnswer ==
    \A r \in Requests :
        pc[r] = "done" => TokenText(events[r]) = sanitizeHTML(FinalAnswer(snapshots[r]))

C4_ToolEndOncePerName ==
    \A r \in Requests :
        /\ ToolsOf(events[r], "tool_end")
               = Sanitized(FirstOccurrences(ToolResultNames(snapshots[r])))
        /\ \A i, j \in DOMAIN events[r] :
               /\ events[r][i].type = "tool_end"
               /\ events[r][j].type = "tool_end"
               /\ events[r][i].tool = events[r][j].tool
               => i = j

\* two results of index_content were consumed and one tool_end was written
C4_Witness ==
    /\ ToolResultNames(snapshots[1]) = <<"index_content", "index_content">>
    /\ ToolsOf(events[1], "tool_end") = <<"index_content">>

\* the event a step appended to r's response, if it appended exactly one
Appended(r) == events'[r][Len(events[r]) + 1]

\* C5: a consumed snapshot appends at most one event, of the type its last message
\* selects (token: an AI message without tool calls, tool_start: an AI message with
\* tool calls, tool_end: a tool message); events are only ever appended, and
\* nothing is written once the terminal event is.
C5_OneEventPerSnapshotInOrder ==
    [][\A r \in Requests :
          /\ Len(events'[r]) \in {Len(events[r]), Len(events[r]) + 1}
          /\ SubSeq(events'[r], 1, Len(events[r])) = events[r]
          /\ pc[r] \in {"done", "error"} => events'[r] = events[r]
          /\ (snapshots'[r] # snapshots[r] /\ events'[r] # events[r]) =>
                LET lastMessage == Last(snapshots'[r])
                IN  /\ Appended(r).type \in {"token", "tool_start", "tool_end"}
                    /\ Appended(r).type = "token" =>
                           lastMessage.type = "ai" /\ Len(lastMessage.tool_calls) = 0
                    /\ Appended(r).type = "tool_start" =>
                           lastMessage.type = "ai" /\ Len(lastMessage.tool_calls) > 0
                    /\ Appended(r).type = "tool_end" => lastMessage.type = "tool"
          /\ (snapshots'[r] = snapshots[r] /\ events'[r] # events[r]) =>
                Appended(r).type \in TerminalTypes /\ pc'[r] \in {"done", "error"}
      ]_vars

\* tool_start, tool_end and token in snapshot order, then done
C5_Witness ==
    /\ pc[1] = "done"
    /\ Len(events[1]) = 4
    /\ [i \in 1..4 |-> events[1][i].type] = <<"tool_start", "tool_end", "token", "done">>

\* C6: whatever a tool's handler throws, the middleware returns a tool message with
\* the failing call's id and a non-empty text that carries the error's message; it
\* never rethrows, so no request ends in error because of a tool, and the message
\* is in the history the Model is called with next.
C6_ToolErrorsBecomeToolMessages ==
    \A r \in Requests :
        /\ toolRun[r] # None /\ toolRun[r][1].outcome.kind # "ok" =>
              LET run == toolRun[r][1]
              IN  /\ run.result.kind = "return"
                  /\ run.result.message.type = "tool"
                  /\ run.result.message.tool_call_id = Some(run.toolCall.id)
                  /\ run.result.message.content.kind = "string"
                  /\ Len(ContentText(run.result.message.content)) > 0
                  /\ Includes(ContentText(run.result.message.content), run.outcome.message)
                  /\ \E k \in DOMAIN snapshots[r] : snapshots[r][k] = run.result.message
        /\ thrown[r] # None => thrown[r][1].origin # "tool"

\* index_content failed with a storage error, the Model was called again and the
\* request ended with done
C6_Witness ==
    /\ pc[1] = "done"
    /\ toolRun[1] # None
    /\ toolRun[1][1].toolCall.name = "index_content"
    /\ toolRun[1][1].outcome.kind = "IndexingError"
    /\ Len(snapshots[1]) = 3
    /\ snapshots[1][2] = toolRun[1][1].result.message
    /\ snapshots[1][3].type = "ai"

\* C9: with two requests interleaved, what each has written before its terminal
\* event is what the serializer writes for its own snapshots alone, from fresh
\* locals.
C9_RequestScopedDedup ==
    \A r \in Requests : StreamEvents(events[r]) = Replay(snapshots[r]).out

\* both requests got the same tool call and each wrote its own tool_start
C9_Witness ==
    /\ ToolsOf(events[1], "tool_start") = <<"index_content">>
    /\ ToolsOf(events[2], "tool_start") = <<"index_content">>

\* C10: for each client the limiter's decisions and window are those of a fixed
\* window of N requests per W ms: the first request opens a window (counter 1,
\* reset now + W) and is allowed; a request no later than the reset time is allowed
\* and counted while the counter is below N and is denied, leaving the counter, once
\* it is N; the first request after the reset time opens a new window, counter 1.
C10_FixedWindowCounter ==
    /\ lastDecision = claimed.decision
    /\ \A identifier \in Identifiers :
          /\ store[identifier] # None => store[identifier] = claimed.window[identifier]
          /\ store[identifier] = None /\ claimed.window[identifier] # None =>
                now > claimed.window[identifier][1].resetTime
          /\ store[identifier] # None => store[identifier][1].count \in 1..maxRequests

\* the request after the N-th, made exactly at the reset time, is denied
C10_Witness ==
    \E identifier \in Identifiers :
        /\ lastDecision = Some([identifier |-> identifier, allowed |-> FALSE])
        /\ store[identifier] # None
        /\ store[identifier][1].count = maxRequests
        /\ now = store[identifier][1].resetTime

(***************************************************************************)
(* Properties of admission                                                 *)
(***************************************************************************)
\* C11: every denied request (status 429) carries a retry-after value derived from
\* the reset time of the window that denied it (the whole seconds, rounded up, from
\* the request to that reset time), and the value is strictly positive at every
\* instant a denied request can arrive, the window's reset time included.
C11_DeniedCarriesPositiveRetryAfter ==
    admission # None /\ admission[1].status = Some(429) =>
        LET call == admission[1]
            remaining == call.resetTime - call.at
        IN  /\ call.retryAfter # None
            /\ 1000 * (call.retryAfter[1] - 1) < remaining
            /\ remaining <= 1000 * call.retryAfter[1]
            /\ call.retryAfter[1] > 0

\* the addresses a forwarded-address header carries: the comma-separated entries of
\* its values, in order
RECURSIVE HeaderAddresses(_)
HeaderAddresses(values) ==
    IF values = <<>> THEN <<>>
    ELSE LET entries == Split(Head(values), ",")
         IN  [i \in DOMAIN entries |-> Trim(entries[i])] \o HeaderAddresses(Tail(values))

AddressesOf(forwardedFor) ==
    IF forwardedFor = None THEN <<>>
    ELSE IF forwardedFor[1].kind = "array" THEN HeaderAddresses(forwardedFor[1].values)
    ELSE HeaderAddresses(<<forwardedFor[1].value>>)

\* C13: behind a trusted proxy the leftmost address of the forwarded-address header
\* is the client identifier only if the header carries no more addresses than the
\* trusted-hop count (1) and that address passes the IPv4/IPv6 syntax validation; in
\* every other case (header absent, more addresses than the hop count, invalid
\* address, proxy not trusted) the identifier is the transport-layer peer address.
C13_ForwardedAddressWithinHopCount ==
    identified # None =>
        LET req == identified[1].req
            addresses == AddressesOf(req.forwardedFor)
            headerUsed == /\ trustProxy
                          /\ Len(addresses) \in 1..maxProxyHops
                          /\ isValidIp(addresses[1])
        IN  identified[1].identifier =
                IF headerUsed THEN addresses[1] ELSE RemoteAddress(req)

\* C14: when the deployment is not behind a trusted proxy, the identifier, every
\* decision and every counter update depend on the peer address only: a limiter
\* reached by the same peers at the same instants with other forwarded-address
\* headers makes the same decisions and holds the same windows.
C14_HeaderCannotChangeAdmission ==
    ~trustProxy =>
        /\ twin = store
        /\ admission # None =>
              /\ admission[1].identifier = admission[1].req.remoteAddress[1]
              /\ admission[1].otherAllowed = admission[1].allowed

\* not behind a trusted proxy, the first peer is denied on a request that names the
\* second peer in its header, the other limiter saw no header, and nothing was
\* charged to the second peer
C14_Witness ==
    /\ ~trustProxy
    /\ admission # None
    /\ admission[1].req = Req(Some("10.0.0.1"), HeaderString("10.0.0.2"))
    /\ admission[1].otherHeader = None
    /\ admission[1].allowed = FALSE
    /\ store["10.0.0.1"] # None /\ store["10.0.0.1"][1].count = maxRequests
    /\ store["10.0.0.2"] = None

\* C15: the sweep removes only windows whose reset time has passed and leaves every
\* other window as it is, so a limiter that is swept at any instants and one that is
\* never swept, after the same calls, answer every later isAllowed and getInfo call
\* alike: in particular a client the unswept limiter denies is denied.
C15_SweepNeverChangesResults ==
    \A identifier \in Identifiers :
        /\ store[identifier] # None => store[identifier] = unswept[identifier]
        /\ store[identifier] = None /\ unswept[identifier] # None =>
              now > unswept[identifier][1].resetTime
        /\ \A t \in Times : t >= now =>
              /\ isAllowed(store, identifier, t).allowed
                     = isAllowed(unswept, identifier, t).allowed
              /\ isAllowed(store, identifier, t).store[identifier]
                     = isAllowed(unswept, identifier, t).store[identifier]
              /\ getInfo(store, identifier, t) = getInfo(unswept, identifier, t)

\* a sweep has removed one client's expired window while another client, at the
\* reset time of its own full window, is denied
C15_Witness ==
    \E identifier, other \in Identifiers :
        /\ store[other] = None /\ unswept[other] # None
        /\ lastDecision = Some([identifier |-> identifier, allowed |-> FALSE])
        /\ store[identifier] # None
        /\ store[identifier][1].count = maxRequests
        /\ now = store[identifier][1].resetTime

RECURSIVE SumOver(_, _)
SumOver(f, S) ==
    IF S = {} THEN 0
    ELSE LET x == CHOOSE y \in S : TRUE IN f[x] + SumOver(f, S \ {x})

\* the requests of the counted client admitted at the instants from..to
AdmittedWithin(from, to) ==
    SumOver(admittedAt, {t \in SlideTimes : from <= t /\ t <= to})

\* C12: the limit is a sliding window: in every interval of length W (60 s), however
\* it is aligned, at most N (10) requests of one client are admitted. (The interval
\* is taken without its right end point.)
C12_SlidingWindowLimit ==
    \A from \in SlideTimes : AdmittedWithin(from, from + windowMs - 1) <= maxRequests

\* C12, as the limiter behaves: the limit is per fixed window. At most N requests are
\* admitted within one window, from the request that opens it up to and including
\* its reset time W later (the counter is the number admitted in it); an interval of
\* length W meets at most two windows and never holds more than 2N admitted requests.
C12_FixedWindowLimit ==
    /\ \A from \in SlideTimes :
           AdmittedWithin(from, from + windowMs) <= 2 * maxRequests
    /\ \A identifier \in {"10.0.0.1"} :
           store[identifier] # None =>
               /\ store[identifier][1].count <= maxRequests
               /\ AdmittedWithin(store[identifier][1].resetTime - windowMs,
                                 store[identifier][1].resetTime)
                      = store[identifier][1].count

\* more than N requests of the client were admitted within two instants one
\* millisecond apart, at the end of one window and the start of the next
C12_Witness ==
    /\ AdmittedWithin(windowMs, windowMs + 1) > maxRequests
    /\ admittedAt[windowMs] > 0
    /\ admittedAt[windowMs + 1] = maxRequests

(***************************************************************************)
(* Properties of validation and of error reporting                         *)
(***************************************************************************)
IsBlank(str) == \A i \in 1..Len(str) : IsSpace(SubSeq(str, i, i))

\* a request body the inbound contract rejects
IsInvalidBody(b) ==
    \/ b.url = None
    \/ IsBlank(b.url[1])
    \/ ~Includes(b.url[1], "youtube.com") /\ ~Includes(b.url[1], "youtu.be")
    \/ b.question = None
    \/ IsBlank(b.question[1])
    \/ Len(b.question[1]) > 500

\* C16: a request whose url is missing or blank or contains neither video-host
\* domain, or whose question is missing, blank or longer than 500 characters, is
\* rejected before any downstream work: the agent is never obtained or invoked (the
\* handler goes from validation straight to its catch block), no Model or tool call
\* is made, and no tool_start, tool_end, token or done event is emitted for it.
C16_InvalidRequestDoesNoWork ==
    \A r \in reqs :
        body[r] # None /\ body[r][1].method = "POST" /\ IsInvalidBody(body[r][1]) =>
            /\ pc[r] = "error"
            /\ thrown[r] # None /\ thrown[r][1].origin = "validation"
            /\ snapshots[r] = <<>>
            /\ toolCalls[r] = <<>>
            /\ toolRun[r] = None
            /\ \A i \in DOMAIN events[r] : events[r][i].type = "error"

\* a request with a valid url and a question of 501 characters was rejected with
\* the error event alone
C16_Witness ==
    \E r \in reqs :
        /\ body[r] # None /\ body[r][1].method = "POST"
        /\ body[r][1].url = Some("https://youtu.be/dQw4w9WgXcQ")
        /\ body[r][1].question # None /\ Len(body[r][1].question[1]) = 501
        /\ pc[r] = "error"
        /\ events[r] = <<ErrorEvent("Question is too long. Maximum 500 characters allowed")>>

\* C17: the HTTP status of the response reflects the failure class: 400 for an
\* invalid request, 429 for a rate-limited one, 500 for a server error while the
\* request is processed.
C17_StatusReflectsFailureClass ==
    /\ \A r \in reqs :
           thrown[r] # None =>
               statusCode[r] = IF thrown[r][1].origin = "validation" THEN 400 ELSE 500
    /\ admission # None /\ ~admission[1].allowed => admission[1].status = Some(429)

\* an error's text matches the allowlist of safe patterns
IsAllowlisted(text) == \E pattern \in safeErrorPatterns : Includes(ToLower(text), pattern)

\* the texts an event carries
EventTexts(e) ==
    CASE e.type = "token" -> {e.content}
      [] e.type = "tool_start" -> {e.tool}
      [] e.type = "tool_end" -> {e.tool, e.result}
      [] e.type = "error" -> {e.message}
      [] OTHER -> {}

\* the errors raised while request r was served: the one its catch block caught and
\* the one its latest tool run threw
ErrorsRaised(r) ==
    (IF thrown[r] = None THEN {} ELSE {thrown[r][1].error})
    \cup (IF toolRun[r] = None \/ toolRun[r][1].outcome.kind = "ok"
          THEN {} ELSE {toolRun[r][1].outcome})

\* C18: the message of every error event is the fixed generic message or the
\* markup-escaped message of an error that matches an allowlisted safe pattern, and
\* the text of an error that matches no allowlisted pattern appears nowhere in the
\* event stream.
C18_OnlyAllowlistedErrorText ==
    \A r \in reqs :
        /\ \A i \in DOMAIN events[r] :
               events[r][i].type = "error" =>
                   /\ thrown[r] # None
                   /\ events[r][i].message =
                          IF IsAllowlisted(ErrorText(thrown[r][1].error))
                          THEN sanitizeHTML(ErrorText(thrown[r][1].error))
                          ELSE GenericErrorMessage
        /\ \A error \in ErrorsRaised(r) :
               error.message # "" /\ ~IsAllowlisted(error.message) =>
                   \A i \in DOMAIN events[r] :
                       \A text \in EventTexts(events[r][i]) :
                           ~Includes(text, error.message)

(***************************************************************************)
(* Properties of the transcript fetch                                      *)
(***************************************************************************)
Failed(outcome) == outcome.kind # "docs"

FetchDone(run) == fetch[run].pc \in {"returned", "thrown"}

\* the retry loop of one call, as far as it has got: the source was invoked at most
\* maxRetries + 1 times, once per attempt and never after a success; a wait of
\* initialDelay * backoffMultiplier^i followed failed attempt i unless it was the
\* last one; a returned call returns the first successful result; a failed call made
\* every attempt and fails with the error of the last one
RetryIsBounded(run) ==
    LET f == fetch[run]
        n == Len(f.calls)
        failures == Cardinality({k \in 1..n : Failed(f.source[k])})
    IN  /\ n <= f.maxRetries + 1
        /\ f.calls = [k \in 1..n |-> k - 1]
        /\ \A k \in 1..(n - 1) : Failed(f.source[k])
        /\ Len(f.delays) = Min(failures, f.maxRetries)
        /\ \A i \in 0..(Len(f.delays) - 1) :
               f.delays[i + 1] = f.initialDelay * f.backoffMultiplier ^ i
        /\ f.maxRetries = 3 /\ f.initialDelay = 1000 /\ f.backoffMultiplier = 2 =>
               /\ n <= 4
               /\ f.delays = SubSeq(<<1000, 2000, 4000>>, 1, Len(f.delays))
        /\ f.pc = "returned" =>
               /\ ~Failed(f.source[n])
               /\ f.result = Some([kind |-> "return", value |-> f.source[n]])
        /\ f.pc = "thrown" =>
               /\ n = f.maxRetries + 1
               /\ failures = n
               /\ Len(f.delays) = f.maxRetries
               /\ f.result # None /\ f.result[1].kind = "throw"
               /\ f.result[1].error # None
               /\ f.result[1].error[1].message = f.source[n].message
               /\ fetchTranscript("dQw4w9WgXcQ", f.result[1]).kind = "throw"
               /\ fetchTranscript("dQw4w9WgXcQ", f.result[1]).error.cause
                      = f.result[1].error

\* C19: the transcript fetch, whose observer hook only logs, invokes the source at
\* most maxRetries + 1 times (4 by default) and then stops: it returns the first
\* successful result without further attempts, waits initialDelay *
\* backoffMultiplier^i after failed attempt i (1 s, 2 s, 4 s by default) except
\* after the last attempt, fails with the error of the last attempt when every
\* attempt fails, and always comes to an end.
C19_RetryIsBoundedAndTerminates ==
    /\ [](\A run \in FetchRuns : fetch[run].hook # "throws" => RetryIsBounded(run))
    /\ <>(\A run \in FetchRuns : FetchDone(run))

\* with the defaults, a fetch whose hook logs has failed after four invocations and
\* the waits 1 s, 2 s, 4 s, with the error of the fourth, which differs from the first
C19_Witness ==
    /\ fetch[1].hook = "returns"
    /\ fetch[1].maxRetries = defaultMaxRetries
    /\ fetch[1].pc = "thrown"
    /\ fetch[1].calls = <<0, 1, 2, 3>>
    /\ fetch[1].delays = <<1000, 2000, 4000>>
    /\ fetch[1].source[1].message = "Transcript is disabled on this video"
    /\ fetch[1].result = Some([kind |-> "throw",
                               error |-> Some([kind |-> "Error", message |-> "ETIMEDOUT"])])

\* C20: the observer hook does not affect control flow: on the same source outcomes
\* a call whose hook is absent, resolves or rejects makes the same source
\* invocations, waits the same delays and ends with the same result or error; and
\* the hook is invoked once before each retry of the source and never before the
\* first attempt.
C20_HookDoesNotAffectControlFlow ==
    /\ FetchDone(1) /\ FetchDone(2) =>
           /\ fetch[1].calls = fetch[2].calls
           /\ fetch[1].delays = fetch[2].delays
           /\ fetch[1].result = fetch[2].result
    /\ fetch[1].hook # "absent" /\ fetch[1].calls # <<>> =>
           fetch[1].hookCalls = Tail(fetch[1].calls)
    /\ fetch[2].hookCalls = <<>>

\* the passages the source returned to a call that has settled, when it returned
ReturnedPassages(run) == fetch[run].source[Len(fetch[run].calls)].docs

AllEmpty(docs) == \A i \in DOMAIN docs : docs[i] = ""

\* C21: the transcript fetch fails when the source returned zero passages and also
\* when every passage it returned has empty text; it never returns a transcript
\* whose text is empty.
C21_EmptyTranscriptIsAFailure ==
    \A run \in FetchRuns :
        fetch[run].transcript # None =>
            LET transcript == fetch[run].transcript[1]
            IN  /\ fetch[run].pc = "returned" /\ AllEmpty(ReturnedPassages(run)) =>
                       transcript.kind = "throw"
                /\ transcript.kind = "return" => transcript.text # ""

(***************************************************************************)
(* Properties of the index                                                 *)
(***************************************************************************)
\* the successful passes over a video so far
SuccessfulPasses(videoId) == SelectSeq(passes[videoId], LAMBDA pass : pass.ok)

C26_OccupancyChecksNeverRaise ==
    ragCall # None =>
        LET call == ragCall[1]
            missing == call.videoId \notin DOMAIN call.before
        IN  /\ call.op = "isVideoIndexed" =>
                   /\ call.outcome.kind = "return"
                   /\ call.outcome.value
                          = (/\ call.backing.kind = "list"
                             /\ call.backing.namespaces # None
                             /\ call.videoId \in call.backing.namespaces[1])
                   /\ missing \/ call.backing.kind = "throws" =>
                          call.outcome.value = FALSE
            /\ call.op = "getNamespaceInfo" =>
                   /\ call.outcome.kind = "return"
                   /\ missing \/ call.backing.kind = "throws" =>
                          call.outcome.value = [exists |-> FALSE,
                                                videoId |-> call.videoId,
                                                chunkCount |-> 0]

\* getNamespaceInfo was asked about a namespace that holds records while the
\* describe call failed, and answered that nothing is there
C26_Witness ==
    /\ ragCall # None
    /\ ragCall[1].op = "getNamespaceInfo"
    /\ ragCall[1].videoId \in DOMAIN namespaces
    /\ Len(namespaces[ragCall[1].videoId]) = 2
    /\ ragCall[1].backing.kind = "throws"
    /\ ragCall[1].outcome = [kind |-> "return",
                             value |-> [exists |-> FALSE, videoId |-> ragCall[1].videoId,
                                        chunkCount |-> 0]]

(***************************************************************************)
(* Properties of the compression                                           *)
(***************************************************************************)
\* C27: the heuristic compression never returns a text longer than the passage it
\* was given, whatever the passage: without terminal punctuation, with every
\* sentence shorter than 20 characters, or empty, for which the result is empty.
C27_HeuristicCompressionNeverGrows ==
    applied # None /\ applied.fn = "quickCompress" /\ applied.output # None =>
        /\ Len(applied.output[1]) <= Len(applied.text)
        /\ applied.text = "" => applied.output[1] = ""

\* the text of the Model's answer as compressDocument reads it
AnswerText(response) ==
    IF response.kind = "string" THEN Trim(response.content) ELSE response.content

\* C28: the Model-assisted compression of a passage of length L returns exactly one
\* of three things: the empty text, flagged compressed, when the Model answers
\* with the not-relevant sentinel or with nothing; the Model's text, flagged
\* compressed, when its length is below 0.8 L; or the passage unchanged, flagged
\* not compressed, when the Model's text is not short enough or the call fails.
\* The returned text is the Model's only below 0.8 L and is never longer than the
\* passage.
C28_ModelCompressionOutcomes ==
    applied # None /\ applied.fn = "compressDocument" /\ applied.output # None =>
        LET L == Len(applied.text)
            result == applied.output[1]
            response == applied.response
            answered == response.kind # "throws"
            nothing == answered /\ AnswerText(response) \in {"", NotRelevant}
            shorter == /\ answered
                       /\ ~nothing
                       /\ 10 * Len(AnswerText(response)) < 8 * L
        IN  /\ nothing => result = [content |-> "", compressed |-> TRUE]
            /\ shorter => result = [content |-> AnswerText(response),
                                    compressed |-> TRUE]
            /\ ~nothing /\ ~shorter =>
                   result = [content |-> applied.text, compressed |-> FALSE]
            /\ Len(result.content) <= L
            /\ result.compressed /\ result.content # "" =>
                   10 * Len(result.content) < 8 * L

\* a passage of ten characters and an answer of seven: the answer is returned
C28_Witness ==
    /\ applied # None
    /\ applied.fn = "compressDocument"
    /\ Len(applied.text) = 10
    /\ applied.response = [kind |-> "string", content |-> "yyyyyyy"]
    /\ applied.output = Some([content |-> "yyyyyyy", compressed |-> TRUE])

\* C29: in batch mode with fan-out m there are never more than m Model calls in
\* flight; no call of a later wave is in flight before every call of the waves
\* before it has completed and their results are gathered; and the call returns
\* exactly one result per input document, in input order, each what
\* compressDocument makes of that document, also when Model calls fail.
C29_BatchFanOutAndOrder ==
    batch # None =>
        /\ Cardinality(batch.inFlight) <= batch.maxConcurrent
        /\ \A j \in batch.inFlight :
               /\ j \in batch.wave
               /\ \A k \in 1..(j - 1) :
                      k \in batch.wave \/ (k \notin batch.inFlight /\ k <= Len(batch.results))
        /\ \A k \in DOMAIN batch.results : k <= Len(batch.docs)
        /\ batch.pc = "done" =>
               /\ batch.inFlight = {}
               /\ Len(batch.results) = Len(batch.docs)
               /\ \A j \in DOMAIN batch.docs :
                      /\ batch.results[j].doc = batch.docs[j]
                      /\ batch.results[j]
                             = BatchResult(batch.docs[j], batch.responses[j])

\* five documents with the default fan-out, the Model call failing for the second:
\* the second wave is under way, one of its two calls still in flight
C29_Witness ==
    /\ batch # None
    /\ batch.maxConcurrent = defaultMaxConcurrent
    /\ Len(batch.docs) = 5
    /\ batch.responses[2].kind = "throws"
    /\ batch.i = 3
    /\ batch.pc = "await"
    /\ batch.inFlight = {5}
    /\ Len(batch.results) = 3
    /\ batch.results[2].compressed = batch.docs[2]

(***************************************************************************)
(* Properties of the queries                                               *)
(***************************************************************************)
QueryReturned ==
    ragCall # None /\ ragCall[1].op = "queryRag" /\ ragCall[1].outcome.kind = "return"

\* the records of the queried video at the time of the latest call
QueriedRecords ==
    IF ragCall[1].videoId \in DOMAIN ragCall[1].before
    THEN ragCall[1].before[ragCall[1].videoId]
    ELSE <<>>

StartsWith(str, prefix) == SubSeq(str, 1, Len(prefix)) = prefix

\* C23: a query with parameter k returns at most k passages in every mode: without
\* compression it asks the index for the k nearest passages and returns them; with
\* compression it asks for min(2k, 10), drops the passages whose compressed text
\* is blank and returns the first k of the rest; so k = 4 on 25 chunks returns at
\* most 4; and the excerpts of the context are numbered 1..n in result order.
C23_AtMostKPassages ==
    QueryReturned =>
        LET call == ragCall[1]
            results == call.outcome.value.results
            matches == call.backing.matches
            asked == IF call.useCompression THEN Min(2 * call.k, 10) ELSE call.k
            kept == SelectSeq(matches,
                        LAMBDA m : Trim(extractRelevantSentences(m.doc.pageContent,
                                                                 Question, 3)) # "")
        IN  /\ Len(results) <= call.k
            /\ Len(matches) = Min(asked, Len(QueriedRecords))
            /\ ~call.useCompression => results = matches
            /\ call.useCompression =>
                   /\ Len(results) = Min(call.k, Len(kept))
                   /\ \A i \in DOMAIN results :
                          results[i].doc.metadata = kept[i].doc.metadata
            /\ call.k = 4 /\ Len(QueriedRecords) = 25 => Len(results) <= 4
            /\ call.outcome.value.compressionUsed = call.useCompression
            /\ call.outcome.value.context = JoinWith(Excerpts(results), "\n---\n")
            /\ \A i \in DOMAIN results :
                   StartsWith(Excerpts(results)[i], "Excerpt #" \o ToString(i) \o " ")

\* a query with k = 4 and compression on a video of 25 chunks: eight passages were
\* retrieved and four returned
C23_Witness ==
    /\ QueryReturned
    /\ ragCall[1].k = 4
    /\ ragCall[1].useCompression
    /\ Len(QueriedRecords) = 25
    /\ Len(ragCall[1].backing.matches) = 8
    /\ Len(ragCall[1].outcome.value.results) = 4

\* C24: the results of a query are in non-increasing order of score, as the index
\* ranked them; each returned passage carries the score the index gave the stored
\* chunk it was made from, also when its text was compressed; and every score lies
\* in [0, 1] (0..1000 thousandths).
C24_RankedResultsKeepTheirScores ==
    QueryReturned =>
        LET call == ragCall[1]
            results == call.outcome.value.results
        IN  /\ \A i \in 1..(Len(results) - 1) : results[i].score >= results[i + 1].score
            /\ \A i \in DOMAIN results :
                   /\ results[i].score >= 0 /\ results[i].score <= 1000
                   /\ results[i].doc.metadata.videoId = call.videoId
                   /\ results[i].score
                          = Similarity[QueriedRecords[results[i].doc.metadata.chunk + 1]
                                           .pageContent]
                   /\ \E j \in DOMAIN call.backing.matches :
                          /\ call.backing.matches[j].doc.metadata
                                 = results[i].doc.metadata
                          /\ call.backing.matches[j].score = results[i].score

\* a query with compression returned three passages of falling score, the second
\* shortened by the compression
C24_Witness ==
    /\ QueryReturned
    /\ ragCall[1].useCompression
    /\ Len(ragCall[1].outcome.value.results) = 3
    /\ ragCall[1].outcome.value.results[1].score = 870
    /\ ragCall[1].outcome.value.results[2].score = 550
    /\ ragCall[1].outcome.value.results[3].score = 120
    /\ ragCall[1].outcome.value.results[1].doc.pageContent # SongPassage

\* C25: a query against a namespace that does not exist, or whose index call
\* errors, fails with the query error (QueryError), while a query against a
\* namespace that exists succeeds when the index call does.
C25_MissingNamespaceFailsTheQuery ==
    ragCall # None /\ ragCall[1].op = "queryRag" =>
        LET call == ragCall[1]
            missing == call.videoId \notin DOMAIN call.before
        IN  /\ missing \/ call.backing.kind = "throws" =>
                   /\ call.outcome.kind = "throw"
                   /\ call.outcome.error.name = "QueryError"
            /\ ~missing /\ call.backing.kind = "matches" => call.outcome.kind = "return"

(***************************************************************************)
(* Properties of the identifier extraction                                 *)
(***************************************************************************)
\* C30: for an 11-character identifier X over [A-Za-z0-9_-], extractVideoId
\* returns X for the bare identifier and for every accepted URL shape built around
\* X: watch, short, embed and mobile, with or without scheme and www., with or
\* without trailing query parameters.
C30_ExtractionReturnsTheIdentifier ==
    /\ applied # None
    /\ applied.fn = "extractVideoId"
    /\ applied.output # None
    /\ applied.id # None
    => applied.output[1] = applied.id

\* https://youtu.be/dQw4w9WgXcQ?t=5 gave dQw4w9WgXcQ
C30_Witness ==
    /\ applied # None
    /\ applied.fn = "extractVideoId"
    /\ applied.input = "https://youtu.be/dQw4w9WgXcQ?t=5"
    /\ applied.output = Some(Some("dQw4w9WgXcQ"))

\* C31: for every input that is neither a bare 11-character identifier nor an
\* accepted URL shape on a video host (an identifier of another length, a URL of
\* another host that carries a video URL inside its path or query, other text),
\* extractVideoId returns no identifier.
C31_OtherInputsGiveNoIdentifier ==
    /\ applied # None
    /\ applied.fn = "extractVideoId"
    /\ applied.output # None
    /\ applied.id = None
    => applied.output[1] = None

\* C32: getInstance returns the one manager at every call, at most one agent is
\* constructed between two discards of the agent, and a getAgent call that follows
\* another with no resetAgent and no change of model name in between returns the
\* agent the earlier call returned.
C32_OneManagerOneAgent ==
    /\ manager.made <= 1
    /\ manager.sinceReset <= 1
    /\ manager.last # None =>
          /\ manager.last[1].op = "getInstance" =>
                manager.last[1].result = 1 /\ manager.instance = Some(1)
          /\ (manager.last[1].op = "getAgent" /\ manager.last[1].held # None) =>
                manager.last[1].held[1] = manager.last[1].result

C32_Witness ==
    /\ manager.last # None
    /\ manager.last[1].op = "getAgent"
    /\ manager.last[1].held = Some(2)
    /\ manager.last[1].result = 2
    /\ Len(manager.built) = 2

\* C39: the agent getAgent returns was constructed with the manager's model name
\* of that moment; setModelName with another name leaves no agent cached, and
\* setModelName with the current name leaves the cached agent in place.
C39_AgentBuiltWithCurrentModel ==
    manager.last # None =>
      /\ manager.last[1].op = "getAgent" =>
            manager.built[manager.last[1].result] = manager.modelName
      /\ manager.last[1].op = "setModelName" =>
            IF manager.last[1].changed
            THEN manager.agent = None
            ELSE manager.agent = manager.last[1].agent

C39_Witness ==
    /\ manager.last # None
    /\ manager.last[1].op = "getAgent"
    /\ manager.last[1].result = 2
    /\ manager.built = <<defaultModelName, "gpt-4o">>
    /\ manager.modelName = "gpt-4o"

\* the events written for the first k snapshots of request r
EventsUpTo(r, k) == Replay(SubSeq(snapshots[r], 1, k)).out

\* the number of tool_start events written for snapshots i..j of request r
ToolStartsWithin(r, i, j) ==
    Len(ToolsOf(EventsUpTo(r, j), "tool_start"))
        - Len(ToolsOf(EventsUpTo(r, i - 1), "tool_start"))

\* snapshots i and j are two distinct calls of the same tool, the second observed
\* after the result of the first, with no call of another tool in between
SameToolTwice(snaps, i, j) ==
    /\ i < j
    /\ IsToolCall(snaps[i])
    /\ IsToolCall(snaps[j])
    /\ snaps[i].tool_calls[1].name = snaps[j].tool_calls[1].name
    /\ snaps[i].tool_calls[1].id # snaps[j].tool_calls[1].id
    /\ \E k \in (i + 1)..(j - 1) :
           /\ snaps[k].type = "tool"
           /\ snaps[k].tool_call_id = Some(snaps[i].tool_calls[1].id)
    /\ \A k \in (i + 1)..(j - 1) :
           IsToolCall(snaps[k]) =>
               snaps[k].tool_calls[1].name = snaps[i].tool_calls[1].name

\* C33: when the Model calls the same tool twice in a row in one request (two
\* distinct calls, the second observed after the result of the first, no other tool
\* called in between), the second call writes no tool_start, so the two calls have
\* one tool_start between them (the one of the first call, when it began the run).
C33_RepeatedCallStartsOnce ==
    \A r \in Requests :
        /\ StreamEvents(events[r]) = Replay(snapshots[r]).out
        /\ \A i, j \in DOMAIN snapshots[r] :
               SameToolTwice(snapshots[r], i, j) =>
                   /\ ToolStartsWithin(r, j, j) = 0
                   /\ ToolStartsWithin(r, i, j) <= 1
                   /\ FirstCallNames(SubSeq(snapshots[r], 1, i - 1)) = <<>>
                          => ToolStartsWithin(r, i, j) = 1

\* index_content called, its result, index_content called again, its result, the
\* answer: one tool_start
C33_Witness ==
    /\ pc[2] = "done"
    /\ Len(snapshots[2]) = 6
    /\ SameToolTwice(snapshots[2], 2, 4)
    /\ FirstCallNames(snapshots[2]) = <<"index_content", "index_content">>
    /\ ToolsOf(events[2], "tool_start") = <<"index_content">>

\* the positions of the events of one type and tool among evs
EventsAt(evs, type, tool) ==
    {i \in DOMAIN evs : evs[i].type = type /\ evs[i].tool = tool}

\* every tool_start for a tool is followed by a tool_end for that tool, every
\* tool_end for a tool is preceded by a tool_start for it, and there are as many of
\* the one as of the other
ToolEventsPairUp(evs) ==
    /\ \A i \in DOMAIN evs :
           evs[i].type = "tool_start" =>
               \E j \in EventsAt(evs, "tool_end", evs[i].tool) : i < j
    /\ \A j \in DOMAIN evs :
           evs[j].type = "tool_end" =>
               \E i \in EventsAt(evs, "tool_start", evs[j].tool) : i < j
    /\ Len(ToolsOf(evs, "tool_start")) = Len(ToolsOf(evs, "tool_end"))

\* C34: in a request that ended with done and whose Model outputs carried at most
\* one tool call each, the tool events pair up: every tool_start for a tool is
\* followed before done by a tool_end for that tool, every tool_end is preceded by
\* a tool_start for its tool, and the two kinds are equally many.
C34_ToolEventsPairUp ==
    \A r \in Requests :
        (/\ pc[r] = "done"
         /\ \A k \in DOMAIN snapshots[r] :
                snapshots[r][k].type = "ai" => Len(snapshots[r][k].tool_calls) <= 1)
        => ToolEventsPairUp(events[r])

\* the name of the tool whose call has the id of the tool message at position k
CalledTool(snaps, k) ==
    LET calls == {i \in 1..(k - 1) :
                     /\ IsToolCall(snaps[i])
                     /\ \E c \in DOMAIN snaps[i].tool_calls :
                            Some(snaps[i].tool_calls[c].id) = snaps[k].tool_call_id}
        i == CHOOSE x \in calls : \A y \in calls : y <= x
        c == CHOOSE x \in DOMAIN snaps[i].tool_calls :
                 Some(snaps[i].tool_calls[x].id) = snaps[k].tool_call_id
    IN  snaps[i].tool_calls[c].name

\* the positions of the tool messages the middleware built from a failure: the
\* tool's own message carries the tool's name, the middleware's carries none
FailedResults(snaps) == {k \in DOMAIN snaps : snaps[k].type = "tool" /\ snaps[k].name = None}

\* C35: when a tool's execution failed and the failure became a tool-result turn,
\* a tool_end is written for that call whose tool field is the name of the failed
\* tool, and the failures of two different tools in one request give two tool_end
\* events.
C35_FailedToolStillEnds ==
    \A r \in Requests :
        LET failed == FailedResults(snapshots[r])
            tools == {CalledTool(snapshots[r], k) : k \in failed}
        IN  /\ \A k \in failed :
                   \E e \in EventsAt(events[r], "tool_end",
                                     sanitizeHTML(CalledTool(snapshots[r], k))) :
                       events[r][e].result = "Tool error: upsert failed"
            /\ Cardinality(tools) >= 2
                   => Cardinality({e \in DOMAIN events[r] :
                                      /\ events[r][e].type = "tool_end"
                                      /\ events[r][e].result = "Tool error: upsert failed"})
                          >= 2

\* C36: the X-RateLimit-Remaining header of a request agrees with its admission:
\* the request is admitted exactly when the header reports more than zero.
C36_RemainingAgreesWithDecision ==
    (admission # None /\ admission[1].stage = "decided") =>
        (admission[1].allowed <=> admission[1].info.remaining > 0)

\* C37: admission is charged before validation. An admitted request leaves its
\* client's window counter one higher than it found it (1 in a window it opened),
\* and the counter stays so when the handler then rejects the request for its
\* method or its body; a denied request leaves the window as it was, is answered
\* 429 and never reaches the handler.
C37_AdmissionChargedBeforeValidation ==
    /\ \A r \in Requests :
           statusCode[r] = 429 => r \notin reqs /\ pc[r] = "idle" /\ body[r] = None
                                     /\ events[r] = <<>>
    /\ (admission # None /\ admission[1].stage = "decided") =>
          LET call == admission[1]
              window == store[call.identifier]
          IN  IF call.allowed
              THEN /\ call.r \in reqs
                   /\ window # None
                   /\ window[1].count =
                          IF call.before = None
                                \/ call.decidedAt > call.before[1].resetTime
                          THEN 1 ELSE call.before[1].count + 1
              ELSE /\ window = call.before
                   /\ statusCode[call.r] = 429

\* the tenth request of a window was admitted and counted, and the handler then
\* refused its body
C37_Witness ==
    /\ admission # None
    /\ admission[1].stage = "decided"
    /\ admission[1].allowed
    /\ admission[1].before = Some([count |-> maxRequests - 1, resetTime |-> windowMs])
    /\ store[admission[1].identifier][1].count = maxRequests
    /\ pc[admission[1].r] = "error"
    /\ thrown[admission[1].r] # None
    /\ thrown[admission[1].r][1].origin = "validation"

\* C38: every validation failure the handler raises (url missing, question
\* missing, unrecognised host, question too long) ends in an error event whose
\* message is the text of that validation problem, never the generic message.
C38_ValidationErrorsAreNamed ==
    \A r \in Requests :
        (thrown[r] # None /\ thrown[r][1].origin = "validation") =>
            /\ pc[r] = "error"
            /\ Last(events[r]).type = "error"
            /\ Last(events[r]).message = sanitizeHTML(thrown[r][1].error.message)
            /\ Last(events[r]).message # GenericErrorMessage

\* the text a successful index_content call returns
IsSuccessText(output) ==
    /\ output.kind = "return"
    /\ Len(output.text) >= 20
    /\ SubSeq(output.text, 1, 20) = "Successfully indexed"

\* C40: index_content writes to the index only after its transcript fetch
\* succeeded with a resolved video identifier, and returns its success text only
\* after the write completed: while the fetch is pending and when it failed, no
\* index call was made and the index is as the call found it; every index call
\* goes to the namespace of the identifier the argument resolves to; when the write
\* failed the call threw and returned no success text; the success text follows a
\* completed write of all the chunks.
C40_IndexAfterFetchSuccessAfterWrite ==
    (ragCall # None /\ ragCall[1].op = "index_content") =>
        LET call == ragCall[1]
        IN  /\ (call.pc = "fetching" \/ call.transcript = None
                    \/ call.transcript[1].kind = "throw") =>
                  /\ call.upserts = <<>>
                  /\ namespaces = call.before
                  /\ call.output = None \/ ~IsSuccessText(call.output[1])
            /\ call.upserts # <<>> =>
                  /\ Len(call.upserts) = 1
                  /\ call.transcript[1].kind = "return"
                  /\ extractVideoId(call.videoUrlOrId) = Some(call.transcript[1].id)
                  /\ call.upserts[1].namespace = call.transcript[1].id
                  /\ \A ns \in DOMAIN namespaces :
                         ns # call.transcript[1].id =>
                             ns \in DOMAIN call.before /\ namespaces[ns] = call.before[ns]
            /\ (call.upserts # <<>> /\ call.upserts[1].upsert.kind # "ok") =>
                  /\ call.pc = "thrown"
                  /\ ~IsSuccessText(call.output[1])
            /\ (call.output # None /\ IsSuccessText(call.output[1])) =>
                  /\ call.pc = "returned"
                  /\ call.upserts # <<>>
                  /\ call.upserts[1].upsert.kind = "ok"
                  /\ Upsert(call.before, call.transcript[1].id,
                            [i \in 1..Len(TextPieces(call.transcript[1].text)) |->
                                Document(call.transcript[1].id, i - 1,
                                         TextPieces(call.transcript[1].text)[i])])
                         = namespaces

\* a second call whose write failed after the first call had succeeded
C40_Witness ==
    /\ ragCall # None
    /\ ragCall[1].op = "index_content"
    /\ ragCall[1].n = 2
    /\ ragCall[1].pc = "thrown"
    /\ ragCall[1].upserts # <<>>
    /\ ragCall[1].upserts[1].upsert.kind = "fails"
    /\ "dQw4w9WgXcQ" \in DOMAIN ragCall[1].before
    /\ ragCall[1].videoUrlOrId = "https://youtu.be/9bZkp7q19f0"

====
